---------------------------- MODULE Spec2Model ----------------------------
(***************************************************************************)
(* A model of the two stages of the STDF alert pipeline:                   *)
(*   - the Converter  (src/lambda_converter/lambda_function.py)            *)
(*   - the Renderer   (src/lambda_slack/lambda_function.py)                *)
(*                                                                         *)
(* Python strings are TLA+ strings.  A message body (a string that is      *)
(* meant to hold JSON) is the sequence of its lexical tokens, so that      *)
(* json.loads is a parser and json.dumps a serialiser.  Integers that do   *)
(* not fit TLC's 32-bit integers (epoch milliseconds) are little-endian    *)
(* sequences of base-1024 limbs, and the one floating-point computation of *)
(* the Converter is modelled with IEEE-754 double rounding.                *)
(***************************************************************************)
EXTENDS Integers, Sequences, FiniteSets, TLC

(***************************************************************************)
(* Bounds of the model.                                                    *)
(***************************************************************************)
\* The largest number of records of an inbound event.
MaxRecords == 2
\* The length of the longest title drawn: 'stdf: ' + title has 6 more.
MaxTitleLen == 95

(***************************************************************************)
(* Python values.                                                          *)
(***************************************************************************)
PyStr(s) == [k |-> "str", s |-> s]
PyInt(n) == [k |-> "int", n |-> n]
PyNone == [k |-> "none"]
PyBool(b) == [k |-> "bool", b |-> b]
PyList(a) == [k |-> "list", a |-> a]
\* A dict is the sequence of its <<key, value>> items in insertion order.
PyDict(o) == [k |-> "dict", o |-> o]

IsStr(v, s) == v.k = "str" /\ v.s = s

\* str.startswith
StartsWith(s, p) == Len(s) >= Len(p) /\ SubSeq(s, 1, Len(p)) = p
\* str.endswith
EndsWith(s, p) == Len(s) >= Len(p) /\ SubSeq(s, Len(s) - Len(p) + 1, Len(s)) = p

\* key in d
DictHas(o, key) == \E i \in 1..Len(o) : o[i][1] = key
\* d[key], for a key of d
DictGet(o, key) == o[CHOOSE i \in 1..Len(o) : o[i][1] = key][2]
\* d[key] = val: a new key is appended, a known key keeps its place
DictSet(o, key, val) ==
    IF DictHas(o, key)
    THEN [i \in 1..Len(o) |-> IF o[i][1] = key THEN <<key, val>> ELSE o[i]]
    ELSE Append(o, <<key, val>>)
\* the keys of d, in order
DictKeys(o) == [i \in 1..Len(o) |-> o[i][1]]

(***************************************************************************)
(* Natural numbers of any size: little-endian limbs in base 2^10, without  *)
(* leading zero limbs; zero is the empty sequence.                         *)
(***************************************************************************)
Base == 2^10

RECURSIVE BigFromInt(_)
BigFromInt(n) == IF n = 0 THEN <<>> ELSE <<n % Base>> \o BigFromInt(n \div Base)

RECURSIVE BigToInt(_)
BigToInt(a) == IF a = <<>> THEN 0 ELSE Head(a) + Base * BigToInt(Tail(a))

RECURSIVE BigNorm(_)
BigNorm(a) ==
    IF a = <<>> THEN <<>>
    ELSE IF a[Len(a)] = 0 THEN BigNorm(SubSeq(a, 1, Len(a) - 1)) ELSE a

RECURSIVE BigAddC(_, _, _)
BigAddC(a, b, c) ==
    IF a = <<>> /\ b = <<>> THEN (IF c = 0 THEN <<>> ELSE <<c>>)
    ELSE LET x == IF a = <<>> THEN 0 ELSE Head(a)
             y == IF b = <<>> THEN 0 ELSE Head(b)
             t == x + y + c
         IN  <<t % Base>> \o BigAddC(IF a = <<>> THEN <<>> ELSE Tail(a),
                                     IF b = <<>> THEN <<>> ELSE Tail(b),
                                     t \div Base)
BigAdd(a, b) == BigAddC(a, b, 0)

\* a * k + c, for 0 <= k < 2^20
RECURSIVE BigMulC(_, _, _)
BigMulC(a, k, c) ==
    IF a = <<>> THEN BigFromInt(c)
    ELSE LET t == Head(a) * k + c
         IN  <<t % Base>> \o BigMulC(Tail(a), k, t \div Base)
BigMulSmall(a, k) == BigNorm(BigMulC(a, k, 0))

\* <<a \div d, a % d>>, for 0 < d <= 2^20: schoolbook short division from
\* the most significant limb down
RECURSIVE BigDivC(_, _, _, _)
BigDivC(a, d, i, r) ==
    IF i = 0 THEN [q |-> <<>>, r |-> r]
    ELSE LET t == r * Base + a[i]
             rest == BigDivC(a, d, i - 1, t % d)
         IN  [q |-> Append(rest.q, t \div d), r |-> rest.r]
BigDivSmall(a, d) ==
    LET x == BigDivC(a, d, Len(a), 0) IN [q |-> BigNorm(x.q), r |-> x.r]

RECURSIVE IntBitLen(_)
IntBitLen(n) == IF n = 0 THEN 0 ELSE 1 + IntBitLen(n \div 2)
BigBitLen(a) == IF a = <<>> THEN 0 ELSE (Len(a) - 1) * 10 + IntBitLen(a[Len(a)])

\* a * 2^k
BigShl(a, k) ==
    IF a = <<>> THEN <<>>
    ELSE [i \in 1..(k \div 10) |-> 0] \o BigMulSmall(a, 2^(k % 10))
\* a \div 2^k
BigShr(a, k) ==
    IF k \div 10 >= Len(a) THEN <<>>
    ELSE BigDivSmall(SubSeq(a, (k \div 10) + 1, Len(a)), 2^(k % 10)).q
\* bit j of a (bit 0 is the least significant)
BigBit(a, j) ==
    IF (j \div 10) + 1 > Len(a) THEN 0 ELSE (a[(j \div 10) + 1] \div 2^(j % 10)) % 2

RECURSIVE BigLessFrom(_, _, _)
BigLessFrom(a, b, i) ==
    IF i = 0 THEN FALSE
    ELSE IF a[i] # b[i] THEN a[i] < b[i] ELSE BigLessFrom(a, b, i - 1)
BigLess(a, b) ==
    IF Len(a) # Len(b) THEN Len(a) < Len(b) ELSE BigLessFrom(a, b, Len(a))

\* The decimal digits of a number, as str(int) writes them.
DigitStr(d) == SubSeq("0123456789", d + 1, d + 1)
RECURSIVE BigDigits(_)
BigDigits(a) ==
    IF a = <<>> THEN ""
    ELSE LET x == BigDivSmall(a, 10) IN BigDigits(x.q) \o DigitStr(x.r)
BigToStr(a) == IF a = <<>> THEN "0" ELSE BigDigits(a)

(***************************************************************************)
(* Exceptions: a call returns Ok(value) or Raise(type, message).           *)
(***************************************************************************)
Ok(v) == [exc |-> "", msg |-> "", v |-> v]
Raise(type, msg) == [exc |-> type, msg |-> msg, v |-> PyNone]
\* isinstance(error, ValueError): json.JSONDecodeError derives from ValueError
IsValueError(type) == type \in {"ValueError", "JSONDecodeError"}

(***************************************************************************)
(* JSON text, as the sequence of its lexical tokens.  A lexeme that is no  *)
(* JSON token (plain text, say) is a token of kind "text".                 *)
(***************************************************************************)
Tok(t) == [t |-> t, s |-> "", n |-> <<>>]
TStr(s) == [t |-> "str", s |-> s, n |-> <<>>]
TNum(n) == [t |-> "num", s |-> "", n |-> n]
TText(s) == [t |-> "text", s |-> s, n |-> <<>>]

\* json.loads: recursive descent over the tokens (json.decoder's scanner)
ParseOk(v, i) == [ok |-> TRUE, v |-> v, i |-> i, msg |-> ""]
ParseFail(msg) == [ok |-> FALSE, v |-> PyNone, i |-> 0, msg |-> msg]

RECURSIVE ParseValue(_, _)
RECURSIVE ParseMembers(_, _, _)
RECURSIVE ParseElements(_, _, _)
RECURSIVE MembersAfter(_, _, _, _)
RECURSIVE ElementsAfter(_, _, _)
ParseValue(toks, i) ==
    IF i > Len(toks) THEN ParseFail("Expecting value")
    ELSE CASE toks[i].t = "str" -> ParseOk(PyStr(toks[i].s), i + 1)
           [] toks[i].t = "num" -> ParseOk(PyInt(toks[i].n), i + 1)
           [] toks[i].t = "null" -> ParseOk(PyNone, i + 1)
           [] toks[i].t = "true" -> ParseOk(PyBool(TRUE), i + 1)
           [] toks[i].t = "false" -> ParseOk(PyBool(FALSE), i + 1)
           [] toks[i].t = "{" ->
                IF i + 1 <= Len(toks) /\ toks[i + 1].t = "}"
                THEN ParseOk(PyDict(<<>>), i + 2)
                ELSE ParseMembers(toks, i + 1, <<>>)
           [] toks[i].t = "[" ->
                IF i + 1 <= Len(toks) /\ toks[i + 1].t = "]"
                THEN ParseOk(PyList(<<>>), i + 2)
                ELSE ParseElements(toks, i + 1, <<>>)
           [] OTHER -> ParseFail("Expecting value")
\* the members of an object from token i on: a key, a colon, a value
ParseMembers(toks, i, acc) ==
    IF i > Len(toks) \/ toks[i].t # "str"
    THEN ParseFail("Expecting property name enclosed in double quotes")
    ELSE IF i + 1 > Len(toks) \/ toks[i + 1].t # ":"
    THEN ParseFail("Expecting ':' delimiter")
    ELSE MembersAfter(toks, toks[i].s, acc, ParseValue(toks, i + 2))
\* after the member key: r, the parse of its value
MembersAfter(toks, key, acc, r) ==
    IF ~r.ok THEN r
    ELSE IF r.i <= Len(toks) /\ toks[r.i].t = "}"
    THEN ParseOk(PyDict(DictSet(acc, key, r.v)), r.i + 1)
    ELSE IF r.i <= Len(toks) /\ toks[r.i].t = ","
    THEN ParseMembers(toks, r.i + 1, DictSet(acc, key, r.v))
    ELSE ParseFail("Expecting ',' delimiter")
ParseElements(toks, i, acc) == ElementsAfter(toks, acc, ParseValue(toks, i))
ElementsAfter(toks, acc, r) ==
    IF ~r.ok THEN r
    ELSE IF r.i <= Len(toks) /\ toks[r.i].t = "]"
    THEN ParseOk(PyList(Append(acc, r.v)), r.i + 1)
    ELSE IF r.i <= Len(toks) /\ toks[r.i].t = ","
    THEN ParseElements(toks, r.i + 1, Append(acc, r.v))
    ELSE ParseFail("Expecting ',' delimiter")

\* what json.loads makes of the parse r of the whole text
LoadsResult(toks, r) ==
    IF ~r.ok THEN Raise("JSONDecodeError", r.msg)
    ELSE IF r.i # Len(toks) + 1 THEN Raise("JSONDecodeError", "Extra data")
    ELSE Ok(r.v)
json_loads(toks) == LoadsResult(toks, ParseValue(toks, 1))

\* json.dumps: a dict's items are written in insertion order
RECURSIVE json_dumps(_)
RECURSIVE DumpItems(_, _)
RECURSIVE DumpElements(_, _)
json_dumps(v) ==
    CASE v.k = "str" -> <<TStr(v.s)>>
      [] v.k = "int" -> <<TNum(v.n)>>
      [] v.k = "none" -> <<Tok("null")>>
      [] v.k = "bool" -> <<IF v.b THEN Tok("true") ELSE Tok("false")>>
      [] v.k = "list" -> <<Tok("[")>> \o DumpElements(v.a, 1) \o <<Tok("]")>>
      [] v.k = "dict" -> <<Tok("{")>> \o DumpItems(v.o, 1) \o <<Tok("}")>>
DumpItems(o, i) ==
    IF i > Len(o) THEN <<>>
    ELSE (IF i > 1 THEN <<Tok(",")>> ELSE <<>>)
         \o <<TStr(o[i][1]), Tok(":")>> \o json_dumps(o[i][2]) \o DumpItems(o, i + 1)
DumpElements(a, i) ==
    IF i > Len(a) THEN <<>>
    ELSE (IF i > 1 THEN <<Tok(",")>> ELSE <<>>) \o json_dumps(a[i]) \o DumpElements(a, i + 1)

\* Building message bodies: the text of a JSON object and of a JSON array.
RECURSIVE JoinComma(_, _)
JoinComma(parts, i) ==
    IF i > Len(parts) THEN <<>>
    ELSE (IF i > 1 THEN <<Tok(",")>> ELSE <<>>) \o parts[i] \o JoinComma(parts, i + 1)
Member(key, text) == <<TStr(key), Tok(":")>> \o text
JObj(members) == <<Tok("{")>> \o JoinComma(members, 1) \o <<Tok("}")>>
JArr(elements) == <<Tok("[")>> \o JoinComma(elements, 1) \o <<Tok("]")>>
JStr(s) == <<TStr(s)>>
JNum(n) == <<TNum(n)>>


(***************************************************************************)
(* datetime.datetime.strptime(s, '%Y-%m-%dT%H:%M:%S.%f%z').timestamp()     *)
(***************************************************************************)
Ch(s, i) == IF i >= 1 /\ i <= Len(s) THEN SubSeq(s, i, i) ELSE ""
IsDigit(c) == c \in {"0", "1", "2", "3", "4", "5", "6", "7", "8", "9"}
DigitVal(c) == CHOOSE d \in 0..9 : DigitStr(d) = c
\* how many of the characters i, i+1, ... of s are digits, up to max
RECURSIVE CountDigits(_, _, _)
CountDigits(s, i, max) ==
    IF max = 0 \/ ~IsDigit(Ch(s, i)) THEN 0 ELSE 1 + CountDigits(s, i + 1, max - 1)
\* int(s[i-1 : i-1+n]), for n digits
RECURSIVE DigitsVal(_, _, _)
DigitsVal(s, i, n) ==
    IF n = 0 THEN 0 ELSE DigitsVal(s, i, n - 1) * 10 + DigitVal(Ch(s, i + n - 1))

\* The result of a directive at position i: the value and the next position.
Matched(v, i) == [ok |-> TRUE, v |-> v, i |-> i]
Unmatched == [ok |-> FALSE, v |-> 0, i |-> 0]

\* A directive of one or two digits (%m %d %H %M %S) at position i: the
\* regular expression of _strptime takes two digits when the two are in
\* lo2..hi, else one digit >= lo1; what follows is a literal, so a lone
\* first digit of an invalid pair leaves a digit where the literal must be.
Field2(s, i, lo2, hi, lo1) ==
    IF CountDigits(s, i, 2) = 2 /\ DigitsVal(s, i, 2) >= lo2 /\ DigitsVal(s, i, 2) <= hi
    THEN Matched(DigitsVal(s, i, 2), i + 2)
    ELSE IF CountDigits(s, i, 2) >= 1 /\ DigitsVal(s, i, 1) >= lo1
    THEN Matched(DigitsVal(s, i, 1), i + 1)
    ELSE Unmatched
\* %d also takes a space and a digit 1..9
FieldDay(s, i) ==
    IF Ch(s, i) = " " /\ IsDigit(Ch(s, i + 1)) /\ DigitVal(Ch(s, i + 1)) >= 1
    THEN Matched(DigitVal(Ch(s, i + 1)), i + 2)
    ELSE Field2(s, i, 1, 31, 1)
\* %Y: four digits
FieldYear(s, i) ==
    IF CountDigits(s, i, 4) = 4 THEN Matched(DigitsVal(s, i, 4), i + 4) ELSE Unmatched
\* %f: one to six digits, in microseconds
FieldFraction(s, i, n) ==
    IF n = 0 THEN Unmatched ELSE Matched(DigitsVal(s, i, n) * 10^(6 - n), i + n)
\* %z: Z, +HHMM, -HHMM, +HH:MM, -HH:MM (the forms with seconds of offset
\* are not drawn); the offset in seconds; j is where the minutes start
ZoneAt(s, i, j) ==
    IF CountDigits(s, i + 1, 2) # 2 \/ CountDigits(s, j, 2) # 2 THEN Unmatched
    ELSE IF DigitsVal(s, j, 2) > 59 THEN Unmatched
    ELSE Matched((IF Ch(s, i) = "-" THEN -1 ELSE 1)
                 * (DigitsVal(s, i + 1, 2) * 3600 + DigitsVal(s, j, 2) * 60), j + 2)
FieldZone(s, i) ==
    IF Ch(s, i) = "Z" THEN Matched(0, i + 1)
    ELSE IF ~(Ch(s, i) \in {"+", "-"}) THEN Unmatched
    ELSE ZoneAt(s, i, IF Ch(s, i + 3) = ":" THEN i + 4 ELSE i + 3)
\* a literal character of the format (the expression ignores case)
FieldLiteral(s, i, c) ==
    IF Ch(s, i) = c \/ (c = "T" /\ Ch(s, i) = "t") THEN Matched(0, i + 1) ELSE Unmatched

\* aws_time_format, '%Y-%m-%dT%H:%M:%S.%f%z', as its directives and literals
AwsTimeFormat == <<"%Y", "-", "%m", "-", "%d", "T", "%H", ":", "%M", ":", "%S", ".", "%f", "%z">>
Directive(s, i, d) ==
    CASE d = "%Y" -> FieldYear(s, i)
      [] d = "%m" -> Field2(s, i, 1, 12, 1)
      [] d = "%d" -> FieldDay(s, i)
      [] d = "%H" -> Field2(s, i, 0, 23, 0)
      [] d = "%M" -> Field2(s, i, 0, 59, 0)
      [] d = "%S" -> Field2(s, i, 0, 61, 0)
      [] d = "%f" -> FieldFraction(s, i, CountDigits(s, i, 6))
      [] d = "%z" -> FieldZone(s, i)
      [] OTHER -> FieldLiteral(s, i, d)
\* The values of the directives of format from the k-th on, matched
\* against s from position i on and appended to acc; <<>> when s does not
\* match or goes on after the match.
RECURSIVE Scan(_, _, _, _, _)
RECURSIVE ScanAfter(_, _, _, _, _)
Scan(s, format, k, i, acc) ==
    IF k > Len(format) THEN (IF i = Len(s) + 1 THEN acc ELSE <<>>)
    ELSE ScanAfter(s, format, k, acc, Directive(s, i, format[k]))
ScanAfter(s, format, k, acc, f) ==
    IF ~f.ok THEN <<>> ELSE Scan(s, format, k + 1, f.i, Append(acc, f.v))

IsLeap(y) == (y % 4 = 0 /\ y % 100 # 0) \/ y % 400 = 0
DaysInMonth(y, m) ==
    IF m = 2 THEN (IF IsLeap(y) THEN 29 ELSE 28)
    ELSE IF m \in {4, 6, 9, 11} THEN 30 ELSE 31
\* days from 1970-01-01 to y-m-d (the proleptic Gregorian calendar)
DaysFromCivil(y, m, d) ==
    LET yy == IF m <= 2 THEN y - 1 ELSE y
        era == yy \div 400
        yoe == yy - era * 400
        mp == IF m > 2 THEN m - 3 ELSE m + 9
        doy == (153 * mp + 2) \div 5 + d - 1
        doe == yoe * 365 + yoe \div 4 - yoe \div 100 + doy
    IN  era * 146097 + doe - 719468

\* The aware datetime of the values f that Scan found, or ValueError
DatetimeOf(f) ==
    IF f = <<>> THEN Raise("ValueError", "time data does not match format")
    ELSE IF f[1] = 0 \/ f[5] > DaysInMonth(f[1], f[3])
    THEN Raise("ValueError", "day is out of range for month")
    ELSE IF f[11] > 59 THEN Raise("ValueError", "second must be in 0..59")
    ELSE Ok([year |-> f[1], month |-> f[3], day |-> f[5], hour |-> f[7],
             minute |-> f[9], second |-> f[11], microsecond |-> f[13],
             utcoffset |-> f[14]])
\* datetime.datetime.strptime(s, aws_time_format)
Strptime(s) == DatetimeOf(Scan(s, AwsTimeFormat, 1, 1, <<>>))

\* (dt - epoch) in microseconds, exact, as timedelta holds it; for an
\* instant from 1970-01-02T00:00:00Z on
TotalMicroseconds(dt) ==
    LET days == DaysFromCivil(dt.year, dt.month, dt.day)
        rest == 86400 + dt.hour * 3600 + dt.minute * 60 + dt.second - dt.utcoffset
    IN  CASE days >= 1 ->
             BigAdd(BigMulSmall(BigAdd(BigMulSmall(BigFromInt(days - 1), 86400),
                                       BigFromInt(rest)), 10^6),
                    BigFromInt(dt.microsecond))

(***************************************************************************)
(* IEEE-754 doubles: [m, e] is m * 2^e with m < 2^53 + 1.                  *)
(***************************************************************************)
\* Whether P, cut by its k low bits, rounds up: to nearest, ties to even
RoundsUp(P, k) ==
    /\ BigBit(P, k - 1) = 1
    /\ \/ BigShl(BigShr(P, k - 1), k - 1) # P
       \/ BigBit(P, k) = 1
\* P * 2^e without the k low bits of P, rounded
RoundBits(P, e, k) ==
    [m |-> IF RoundsUp(P, k) THEN BigAdd(BigShr(P, k), <<1>>) ELSE BigShr(P, k),
     e |-> e + k]
\* P * 2^e rounded to the nearest double
RoundToDouble(P, e) ==
    IF BigBitLen(P) <= 53 THEN [m |-> P, e |-> e] ELSE RoundBits(P, e, BigBitLen(P) - 53)
\* The double nearest to (x.q + x.r / d) * 2^(-s), for a quotient x.q of 56
\* bits or more: one more bit tells whether the division left a remainder.
RoundQuotient(x, s) ==
    RoundToDouble(BigAdd(BigShl(x.q, 1), IF x.r # 0 THEN <<1>> ELSE <<>>), -(s + 1))
FloatDivShifted(p, d, s) == RoundQuotient(BigDivSmall(BigShl(p, s), d), s)
\* p / d in floats (int / int is correctly rounded), for 0 < d < 2^20
FloatDiv(p, d) ==
    IF p = <<>> THEN [m |-> <<>>, e |-> 0]
    ELSE FloatDivShifted(p, d, IF BigBitLen(p) >= 76 THEN 0 ELSE 76 - BigBitLen(p))
\* x * k in floats, for 0 <= k < 2^20
FloatMulSmall(x, k) == RoundToDouble(BigMulSmall(x.m, k), x.e)
\* int(x), for x >= 0
FloatToInt(x) == IF x.e >= 0 THEN BigShl(x.m, x.e) ELSE BigShr(x.m, -x.e)

\* datetime.timestamp(): (dt - epoch).total_seconds()
Timestamp(dt) == FloatDiv(TotalMicroseconds(dt), 10^6)


(***************************************************************************)
(* Python expressions the two stages use.                                  *)
(***************************************************************************)
\* v[key], for a str key
Subscript(v, key) ==
    CASE v.k = "dict" ->
            IF DictHas(v.o, key) THEN Ok(DictGet(v.o, key))
            ELSE Raise("KeyError", "'" \o key \o "'")
      [] v.k = "list" -> Raise("TypeError", "list indices must be integers or slices, not str")
      [] v.k = "str" -> Raise("TypeError", "string indices must be integers")
      [] OTHER -> Raise("TypeError", "object is not subscriptable")
\* v.get(key)
GetMethod(v, key) ==
    IF v.k = "dict"
    THEN Ok(IF DictHas(v.o, key) THEN DictGet(v.o, key) ELSE PyNone)
    ELSE Raise("AttributeError", "object has no attribute 'get'")
\* v is None
IsNone(v) == v.k = "none"
\* f'{v}', for the values a title, a description or an id is drawn from
PyFormat(v) ==
    CASE v.k = "str" -> v.s
      [] v.k = "int" -> BigToStr(v.n)
      [] v.k = "none" -> "None"
      [] v.k = "bool" -> IF v.b THEN "True" ELSE "False"
      [] v.k = "list" /\ v.a = <<>> -> "[]"
      [] v.k = "dict" /\ v.o = <<>> -> "{}"

\* An SNS subject is a string or None.
Some(s) == [isNone |-> FALSE, s |-> s]
None == [isNone |-> TRUE, s |-> ""]
\* subject == s
SubjectIs(subject, s) == ~subject.isNone /\ subject.s = s

\* An inbound event of n records that all carry subject and message.
Event(n, subject, message) ==
    [Records |-> [i \in 1..n |-> [Sns |-> [Subject |-> subject, Message |-> message]]]]

(***************************************************************************)
(* The Converter: src/lambda_converter/lambda_function.py                  *)
(***************************************************************************)
\* os.getenv('OUTGOING_SNS_TOPIC')
OutgoingSnsTopic == "arn:aws:sns:fanout"

IntToStr(n) == BigToStr(BigFromInt(n))

\* The check with its message a plain string, the count not formatted in.
error_if_not_exactly_one_record_unformatted(event) ==
    IF Len(event.Records) # 1
    THEN Raise("Exception",
               "Received SNS message with {number_of_records} records. This should never happen: AWS states all lambda SNS messages will always have exactly one record.")
    ELSE Ok(PyNone)

error_if_not_exactly_one_record(event) ==
    LET number_of_records == Len(event.Records) IN
    IF number_of_records # 1
    THEN Raise("Exception",
               "Received SNS message with " \o IntToStr(number_of_records)
               \o " records. This should never happen: AWS states all lambda SNS messages will always have exactly one record.")
    ELSE Ok(PyNone)

get_subject_and_message(event) ==
    [subject |-> event.Records[1].Sns.Subject,
     message |-> event.Records[1].Sns.Message]

\* int(dt.timestamp() * 1000), for the result dt of strptime
MillisOf(dt) ==
    IF dt.exc # "" THEN dt
    ELSE Ok(PyInt(FloatToInt(FloatMulSmall(Timestamp(dt.v), 1000))))
\* int(strptime(value, aws_time_format).timestamp() * 1000)
AlarmTimestamp(value) ==
    IF value.k # "str" THEN Raise("TypeError", "strptime() argument 1 must be str")
    ELSE MillisOf(Strptime(value.s))

\* r[key], for the result r of a call
Then(r, key) == IF r.exc # "" THEN r ELSE Subscript(r.v, key)

\* The envelope with description and raw_data taken from each other's field.
StdfOfAlarm_swapped(timestamp, alarm_name, description, reason, account_id, region) ==
    PyDict(<<
        <<"payload", PyDict(<<
            <<"title", alarm_name>>,
            <<"description", reason>>,
            <<"raw_data", description>> >>)>>,
        <<"meta", PyDict(<<
            <<"timestamp", timestamp>>,
            <<"source", PyDict(<<
                <<"provider", PyStr("AWS")>>,
                <<"account_id", account_id>>,
                <<"region", region>>,
                <<"service", PyStr("CloudWatch")>>,
                <<"app_name", PyStr("Metric Alarm")>> >>)>>,
            <<"urls", PyList(<<
                PyDict(<<
                    <<"url", PyStr("https://console.aws.amazon.com/cloudwatch/home#alarmsV2:alarm/"
                                   \o PyFormat(alarm_name))>>,
                    <<"text", PyStr("Show alarm details")>> >>) >>)>> >>)>>,
        <<"stdf_version", PyInt(<<2>>)>> >>)

\* The envelope parse_metric_to_stdf builds from the six consumed values.
\* The envelope of an alarm with meta.urls the one {url, text} itself, not
\* a sequence of one.
StdfOfAlarm_bare_url(timestamp, alarm_name, description, reason, account_id, region) ==
    PyDict(<<
        <<"payload", PyDict(<<
            <<"title", alarm_name>>,
            <<"description", description>>,
            <<"raw_data", reason>> >>)>>,
        <<"meta", PyDict(<<
            <<"timestamp", timestamp>>,
            <<"source", PyDict(<<
                <<"provider", PyStr("AWS")>>,
                <<"account_id", account_id>>,
                <<"region", region>>,
                <<"service", PyStr("CloudWatch")>>,
                <<"app_name", PyStr("Metric Alarm")>> >>)>>,
            <<"urls", PyDict(<<
                    <<"url", PyStr("https://console.aws.amazon.com/cloudwatch/home#alarmsV2:alarm/"
                                   \o PyFormat(alarm_name))>>,
                    <<"text", PyStr("Show alarm details")>> >>)>> >>)>>,
        <<"stdf_version", PyInt(<<2>>)>> >>)

StdfOfAlarm(timestamp, alarm_name, description, reason, account_id, region) ==
    PyDict(<<
        <<"payload", PyDict(<<
            <<"title", alarm_name>>,
            <<"description", description>>,
            <<"raw_data", reason>> >>)>>,
        <<"meta", PyDict(<<
            <<"timestamp", timestamp>>,
            <<"source", PyDict(<<
                <<"provider", PyStr("AWS")>>,
                <<"account_id", account_id>>,
                <<"region", region>>,
                <<"service", PyStr("CloudWatch")>>,
                <<"app_name", PyStr("Metric Alarm")>> >>)>>,
            <<"urls", PyList(<<
                PyDict(<<
                    <<"url", PyStr("https://console.aws.amazon.com/cloudwatch/home#alarmsV2:alarm/"
                                   \o PyFormat(alarm_name))>>,
                    <<"text", PyStr("Show alarm details")>> >>) >>)>> >>)>>,
        <<"stdf_version", PyInt(<<2>>)>> >>)

\* The first of the calls rs (in the order the code makes them) that
\* raises, or Ok
RECURSIVE FirstRaise(_, _)
FirstRaise(rs, i) ==
    IF i > Len(rs) THEN Ok(PyNone)
    ELSE IF rs[i].exc # "" THEN rs[i] ELSE FirstRaise(rs, i + 1)

\* lines 24-49, from the results of the lookups in the order the code makes
\* them
StdfOfLookups(timestamp, alarm_name, description, reason, account_id, region) ==
    IF FirstRaise(<<timestamp, alarm_name, description, reason, account_id, region>>, 1).exc # ""
    THEN FirstRaise(<<timestamp, alarm_name, description, reason, account_id, region>>, 1)
    ELSE Ok(json_dumps(StdfOfAlarm(timestamp.v, alarm_name.v, description.v,
                                   reason.v, account_id.v, region.v)))
\* the timestamp of line 24, from the lookup of StateChangeTime
TimestampOf(time) == IF time.exc # "" THEN time ELSE AlarmTimestamp(time.v)
\* lines 23-49, for the result of json.loads(message)
StdfOfParsed(parsed_message) ==
    IF parsed_message.exc # "" THEN parsed_message
    ELSE StdfOfLookups(TimestampOf(Subscript(parsed_message.v, "StateChangeTime")),
                       Subscript(parsed_message.v, "AlarmName"),
                       Subscript(parsed_message.v, "AlarmDescription"),
                       Subscript(parsed_message.v, "NewStateReason"),
                       Subscript(parsed_message.v, "AWSAccountId"),
                       Subscript(parsed_message.v, "Region"))
parse_metric_to_stdf(message) == StdfOfParsed(json_loads(message))

\* The subject rule of post_stdf_string_to_sns.
SubjectLimit == 99
SubjectKept == 88
\* The subject rule cutting from 99 characters on instead of above 99.
TruncateSubject_from_limit(subject) ==
    IF Len(subject) >= 99
    THEN SubSeq(subject, 1, 88) \o "[TRUNCATED]"
    ELSE subject

\* The subject rule keeping the end of a long subject instead of its
\* beginning.
TruncateSubject_tail(subject) ==
    IF Len(subject) > SubjectLimit
    THEN "[TRUNCATED]" \o SubSeq(subject, Len(subject) - SubjectKept + 1, Len(subject))
    ELSE subject

TruncateSubject(subject) ==
    IF Len(subject) > SubjectLimit
    THEN SubSeq(subject, 1, SubjectKept) \o "[TRUNCATED]"
    ELSE subject

\* The publish of post_stdf_string_to_sns, for the result title of
\* json.loads(message)["payload"]["title"]
StdfPublish(message, title) ==
    IF title.exc # "" THEN title
    ELSE Ok([TopicArn |-> OutgoingSnsTopic,
             Subject |-> TruncateSubject("stdf: " \o PyFormat(title.v)),
             Message |-> message])
\* post_stdf_string_to_sns up to its call of sns.publish: the arguments of
\* that call, or what the subject's computation raises
post_stdf_string_to_sns(message) ==
    StdfPublish(message, Then(Then(json_loads(message), "payload"), "title"))

\* post_unrecognized_to_sns_and_warn: the arguments of its sns.publish
post_unrecognized_to_sns_and_warn(message) ==
    [TopicArn |-> OutgoingSnsTopic,
     Subject |-> "unrecognizedNonStdfMessage",
     Message |-> message]

\* v == 'stdfMessage', for the result v of json.loads(message).get(...)
IsDiscriminator(type) == IF type.exc # "" THEN type ELSE Ok(IsStr(type.v, "stdfMessage"))
\* json.loads(message).get('message_type'), for the result of json.loads
MessageType(parsed) == IF parsed.exc # "" THEN parsed ELSE GetMethod(parsed.v, "message_type")
\* The test of line 83 without its subject half.
IsStdfMessage_body_only(subject, message) ==
    IsDiscriminator(MessageType(json_loads(message)))

\* The test of line 83: TRUE, FALSE, or what json.loads(message).get raises
IsStdfMessage(subject, message) ==
    IF SubjectIs(subject, "stdfMessage") THEN Ok(TRUE)
    ELSE IsDiscriminator(MessageType(json_loads(message)))
\* The test of line 85 for the prefix 'ALARM' alone.
IsMetricAlarm_short_prefix(subject) ==
    IF subject.isNone THEN FALSE
    ELSE Len(subject.s) >= 5 /\ SubSeq(subject.s, 1, 5) = "ALARM"

\* The test of line 85
IsMetricAlarm(subject) == ~subject.isNone /\ StartsWith(subject.s, "ALARM: ")


(***************************************************************************)
(* The Renderer: src/lambda_slack/lambda_function.py                       *)
(***************************************************************************)
\* The text of a message body: its lexemes, each followed by a space.
RECURSIVE TextOf(_, _)
TextOf(toks, i) ==
    IF i > Len(toks) THEN ""
    ELSE (CASE toks[i].t = "str" -> "\"" \o toks[i].s \o "\""
            [] toks[i].t = "num" -> BigToStr(toks[i].n)
            [] toks[i].t = "text" -> toks[i].s
            [] OTHER -> toks[i].t) \o " " \o TextOf(toks, i + 1)

\* year, month and day of the day z days after 1970-01-01
YearOfEra(doe) == (doe - doe \div 1460 + doe \div 36524 - doe \div 146096) \div 365
DayOfYear(doe, yoe) == doe - (365 * yoe + yoe \div 4 - yoe \div 100)
CivilOfEra(era, doe) ==
    [y |-> YearOfEra(doe) + era * 400, doy |-> DayOfYear(doe, YearOfEra(doe))]
CivilFromDays(z) == CivilOfEra((z + 719468) \div 146097, (z + 719468) % 146097)
\* doy counts from March 1st
MonthOf(doy) == IF (5 * doy + 2) \div 153 < 10 THEN (5 * doy + 2) \div 153 + 3
                ELSE (5 * doy + 2) \div 153 - 9
DayOf(doy) == doy - (153 * ((5 * doy + 2) \div 153) + 2) \div 5 + 1
YearOf(c) == IF MonthOf(c.doy) <= 2 THEN c.y + 1 ELSE c.y

Pad2(n) == DigitStr(n \div 10) \o DigitStr(n % 10)
Pad4(n) == Pad2(n \div 100) \o Pad2(n % 100)
\* datetime.isoformat() of the UTC time c, sod seconds into the day, with
\* '+00:00' replaced by 'Z'
IsoZulu(c, sod) ==
    Pad4(YearOf(c)) \o "-" \o Pad2(MonthOf(c.doy)) \o "-" \o Pad2(DayOf(c.doy))
    \o "T" \o Pad2(sod \div 3600) \o ":" \o Pad2((sod % 3600) \div 60) \o ":" \o Pad2(sod % 60)
    \o "Z"
\* 9999-12-31T23:59:59Z in seconds: datetime's last second
MaxSeconds == BigAdd(BigMulSmall(BigFromInt(DaysFromCivil(9999, 12, 31)), 86400), BigFromInt(86399))
\* fromtimestamp(seconds, tz=UTC).isoformat().replace('+00:00', 'Z'), for
\* the day and the second of the day seconds falls on
ZuluOfSeconds(seconds) ==
    IF BigLess(MaxSeconds, seconds)
    THEN Raise("ValueError",
               "year " \o IntToStr(YearOf(CivilFromDays(BigToInt(BigDivSmall(seconds, 86400).q))))
               \o " is out of range")
    ELSE Ok(IsoZulu(CivilFromDays(BigToInt(BigDivSmall(seconds, 86400).q)),
                    BigDivSmall(seconds, 86400).r))
\* get_zulu_timestamp in a zone three hours east of UTC, under the same
\* letter Z.
get_zulu_timestamp_three_hours_east(unix_time_milliseconds) ==
    CASE unix_time_milliseconds.k = "int" ->
            ZuluOfSeconds(BigAdd(BigDivSmall(unix_time_milliseconds.n, 1000).q,
                                 BigFromInt(3 * 3600)))
      [] unix_time_milliseconds.k = "bool" -> ZuluOfSeconds(BigFromInt(3 * 3600))
      [] OTHER -> Raise("TypeError", "unsupported operand type(s) for //")

\* get_zulu_timestamp, for a Python value; bool is an int
get_zulu_timestamp(unix_time_milliseconds) ==
    CASE unix_time_milliseconds.k = "int" ->
            ZuluOfSeconds(BigDivSmall(unix_time_milliseconds.n, 1000).q)
      [] unix_time_milliseconds.k = "bool" -> ZuluOfSeconds(<<>>)
      [] OTHER -> Raise("TypeError", "unsupported operand type(s) for //")

\* f"<{url['url']}|{url['text']}>", for the results of the two lookups
FormatUrl(url, text) ==
    IF url.exc # "" THEN url
    ELSE IF text.exc # "" THEN text
    ELSE Ok("<" \o PyFormat(url.v) \o "|" \o PyFormat(text.v) \o ">")
\* The loop of format_urls from the i-th entry on; formatted_urls so far.
RECURSIVE FormatUrlsFrom(_, _, _)
RECURSIVE FormatUrlsAfter(_, _, _, _)
FormatUrlsFrom(urls, i, formatted_urls) ==
    IF i > Len(urls) THEN Ok(formatted_urls)
    ELSE FormatUrlsAfter(urls, i, formatted_urls,
                         FormatUrl(Subscript(urls[i], "url"), Subscript(urls[i], "text")))
\* The loop with the delimiter after every entry instead of before every
\* entry but the first.
FormatUrlsAfter_trailing(urls, i, formatted_urls, one) ==
    IF one.exc # "" THEN one
    ELSE FormatUrlsFrom(urls, i + 1, formatted_urls \o one.v \o " - ")

FormatUrlsAfter(urls, i, formatted_urls, one) ==
    IF one.exc # "" THEN one
    ELSE FormatUrlsFrom(urls, i + 1,
                        formatted_urls \o (IF i = 1 THEN "" ELSE " - ") \o one.v)
\* format_urls, for a Python value: a list is walked; an empty str or dict
\* has nothing to walk; a number, a bool or None cannot be iterated, and
\* the items of a str or dict are strings, which have no ['url']
format_urls(urls) ==
    CASE urls.k = "list" -> FormatUrlsFrom(urls.a, 1, "")
      [] urls.k = "str" /\ urls.s = "" -> Ok("")
      [] urls.k = "dict" /\ urls.o = <<>> -> Ok("")
      [] urls.k \in {"str", "dict"} -> Raise("TypeError", "string indices must be integers")
      [] OTHER -> Raise("TypeError", "object is not iterable")

Mrkdwn(text) == PyDict(<< <<"type", PyStr("mrkdwn")>>, <<"text", text>> >>)
Section(text) == PyDict(<< <<"type", PyStr("section")>>, <<"text", Mrkdwn(text)>> >>)
Divider == PyDict(<< <<"type", PyStr("divider")>> >>)
\* Three grave accents, the fence of the raw_data section of line 75. A
\* grave accent in a string has to be closed by an apostrophe to be read.
CodeFence == SubSeq("```'''", 1, 3)
\* lines 53-103: the six blocks, from the values looked up in lines 44-51
FixedBlocks(app_name, alert_title, description, log_line, provider, service_name, account_id, zulu_timestamp) ==
    << Section(PyStr("*" \o PyFormat(app_name) \o "*: *" \o PyFormat(alert_title) \o "*")),
       Section(description),
       Section(PyStr(CodeFence \o PyFormat(log_line) \o CodeFence)),
       Divider,
       PyDict(<< <<"type", PyStr("section")>>,
                 <<"fields", PyList(<<
                     Mrkdwn(PyStr("*Source:* " \o PyFormat(provider) \o " " \o PyFormat(service_name))),
                     Mrkdwn(PyStr("*Account id:* " \o PyFormat(account_id))),
                     Mrkdwn(PyStr("*Timestamp*: " \o zulu_timestamp)),
                     Mrkdwn(PyStr("*Region:* us-east-1")) >>)>> >>),
       Divider >>
\* lines 119-127
EventIdSection(event_id) ==
    PyDict(<< <<"type", PyStr("context")>>,
              <<"elements", PyList(<<Mrkdwn(PyStr("*Event id*: " \o PyFormat(event_id)))>>)>> >>)
\* lines 117-130
WithEventId(blocks, event_id) ==
    Ok(PyDict(<< <<"blocks", PyList(IF IsNone(event_id) THEN blocks
                                    ELSE Append(blocks, EventIdSection(event_id)))>> >>))
\* lines 105-130 with the two appends in the other order: the event-id
\* section first, the links section after it.
WithLinks_after_event_id(blocks, links, event_id) ==
    IF links.exc # "" THEN links
    ELSE Ok(PyDict(<< <<"blocks", PyList((IF IsNone(event_id) THEN blocks
                                          ELSE Append(blocks, EventIdSection(event_id)))
                                         \o <<Section(PyStr(links.v))>>)>> >>))

\* lines 107-115, for the result links of format_urls(urls)
WithLinks(blocks, links, event_id) ==
    IF links.exc # "" THEN links
    ELSE WithEventId(Append(blocks, Section(PyStr(links.v))), event_id)
\* lines 105-130
WithUrls(blocks, urls, event_id) ==
    IF IsNone(urls) THEN WithEventId(blocks, event_id)
    ELSE WithLinks(blocks, format_urls(urls), event_id)
\* get_zulu_timestamp(stdf_parsed['meta']['timestamp']), for the result of
\* the lookup
ZuluOf(timestamp) == IF timestamp.exc # "" THEN timestamp ELSE get_zulu_timestamp(timestamp.v)
\* lines 53-130 behind a check of the version: an envelope of another
\* stdf_version than 2 is refused.
FormatLookups_versioned(stdf_parsed, look) ==
    IF GetMethod(stdf_parsed, "stdf_version").v # PyInt(<<2>>)
    THEN Raise("ValueError", "unsupported stdf_version")
    ELSE IF FirstRaise(look, 1).exc # "" THEN FirstRaise(look, 1)
    ELSE WithUrls(FixedBlocks(look[1].v, look[2].v, look[3].v, look[4].v,
                              look[5].v, look[6].v, look[7].v, look[8].v),
                  GetMethod(DictGet(stdf_parsed.o, "meta"), "urls").v,
                  GetMethod(DictGet(DictGet(stdf_parsed.o, "meta").o, "source"), "event_id").v)

\* lines 53-130, for the results look of the lookups of lines 44-51
FormatLookups(stdf_parsed, look) ==
    IF FirstRaise(look, 1).exc # "" THEN FirstRaise(look, 1)
    ELSE WithUrls(FixedBlocks(look[1].v, look[2].v, look[3].v, look[4].v,
                              look[5].v, look[6].v, look[7].v, look[8].v),
                  GetMethod(DictGet(stdf_parsed.o, "meta"), "urls").v,
                  GetMethod(DictGet(DictGet(stdf_parsed.o, "meta").o, "source"), "event_id").v)
\* lines 44-130, for the result of json.loads(stdf_message)
FormatParsed(parsed) ==
    IF parsed.exc # "" THEN parsed
    ELSE FormatLookups(parsed.v, <<
            Then(Then(Then(parsed, "meta"), "source"), "app_name"),
            Then(Then(parsed, "payload"), "title"),
            Then(Then(parsed, "payload"), "description"),
            Then(Then(parsed, "payload"), "raw_data"),
            Then(Then(Then(parsed, "meta"), "source"), "provider"),
            Then(Then(Then(parsed, "meta"), "source"), "service"),
            Then(Then(Then(parsed, "meta"), "source"), "account_id"),
            ZuluOf(Then(Then(parsed, "meta"), "timestamp")) >>)
format_stdf(stdf_message) == FormatParsed(json_loads(stdf_message))

\* format_fallback with the body before the reason.
format_fallback_body_first(message, fallback_reason) ==
    PyDict(<< <<"text", PyStr(TextOf(message, 1)
                              \o ". Failed to format the message. Using fallback mode!\n"
                              \o fallback_reason)>> >>)

\* format_fallback; fallback_reason is a string
format_fallback(message, fallback_reason) ==
    PyDict(<< <<"text", PyStr(fallback_reason
                              \o ". Failed to format the message. Using fallback mode!\n"
                              \o TextOf(message, 1))>> >>)

\* http.HTTPStatus.OK
HttpOk == 200
HttpsPort == 443
\* The request post_to_slack makes, and the status the webhook answers.
SlackRequest(webhook, slack_message, status) ==
    [host |-> DictGet(webhook.o, "host").s, port |-> HttpsPort, method |-> "POST",
     path |-> DictGet(webhook.o, "path").s,
     body |-> json_dumps(slack_message),
     headers |-> << <<"Content-Type", "application/json">> >>,
     status |-> status]
\* post_to_slack taking every status of the 2xx class for success.
PostOutcome_any_2xx(status) ==
    IF status < 200 \/ status > 299
    THEN Raise("ValueError", "Request to slack returned an error " \o IntToStr(status))
    ELSE Ok(PyNone)

\* what post_to_slack returns or raises on that status
PostOutcome(status) ==
    IF status # HttpOk
    THEN Raise("ValueError", "Request to slack returned an error " \o IntToStr(status))
    ELSE Ok(PyNone)

\* The test of line 159 without its startswith half: every subject but the
\* sentinel takes the bypass.
IsBypass_sentinel_only(subject) ==
    IF subject.isNone THEN Raise("AttributeError", "'NoneType' object has no attribute 'startswith'")
    ELSE Ok(subject.s # "stdfMessage")

\* The test of line 159 with the Converter's inbound prefix in the place of
\* the outbound one.
IsBypass_alarm_prefix(subject) ==
    IF subject.isNone THEN Raise("AttributeError", "'NoneType' object has no attribute 'startswith'")
    ELSE Ok(subject.s # "stdfMessage" /\ ~StartsWith(subject.s, "ALARM: "))

\* The test of line 159: TRUE for the bypass; None has no startswith
IsBypass(subject) ==
    IF subject.isNone THEN Raise("AttributeError", "'NoneType' object has no attribute 'startswith'")
    ELSE Ok(subject.s # "stdfMessage" /\ ~StartsWith(subject.s, "stdf: "))

(***************************************************************************)
(* The inputs drawn.                                                       *)
(***************************************************************************)
\* A title of n characters, no two neighbours alike.
RECURSIVE TitleOfLen(_)
TitleOfLen(n) ==
    IF n = 0 THEN "" ELSE TitleOfLen(n - 1) \o SubSeq("abcdefghij", (n % 10) + 1, (n % 10) + 1)
\* Titles around the subject rule: 'stdf: ' + title has 99, 100 and more
\* characters for the last three.
TitleLens == <<0, 8, SubjectLimit - 6, SubjectLimit - 5, MaxTitleLen>>

\* A canonical envelope's text; ms is the timestamp, more the further
\* members of meta.source and of meta, top the further members of the
\* envelope.
EnvelopeText(title, ms, moreSource, moreMeta, top) ==
    JObj(top \o <<
        Member("payload", JObj(<<
            Member("title", title),
            Member("description", JStr("Disk usage above 90%")),
            Member("raw_data", JStr("df: /dev/xvda1 91%")) >>)),
        Member("meta", JObj(<<
            Member("timestamp", ms),
            Member("source", JObj(<<
                Member("provider", JStr("AWS")),
                Member("account_id", JStr("000000000000")),
                Member("region", JStr("eu-west-1")),
                Member("service", JStr("EC2")),
                Member("app_name", JStr("Disk Monitor")) >> \o moreSource)) >> \o moreMeta)),
        Member("stdf_version", JNum(<<2>>)) >>)

\* 1582154420000, the timestamp of the tests of the Renderer
Ms2020 == BigMulSmall(BigFromInt(1582154420), 1000)
Discriminator == <<Member("message_type", JStr("stdfMessage"))>>

\* A CloudWatch alarm notification's text, from its members.
AlarmMember(key, value) == Member(key, JStr(value))
AlarmFields(name, time) == <<
    AlarmMember("AlarmName", name),
    AlarmMember("AlarmDescription", "Example alarm description."),
    AlarmMember("AWSAccountId", "000000000000"),
    AlarmMember("NewStateValue", "ALARM"),
    AlarmMember("NewStateReason", "Threshold Crossed: 1 datapoint (10.0) was greater than or equal to the threshold (1.0)."),
    AlarmMember("StateChangeTime", time),
    AlarmMember("Region", "EU - Ireland"),
    AlarmMember("OldStateValue", "OK") >>
\* The members of an alarm that parse_metric_to_stdf reads.
ConsumedFields == <<"StateChangeTime", "AlarmName", "AlarmDescription",
                    "NewStateReason", "AWSAccountId", "Region">>
Without(members, key) == SelectSeq(members, LAMBDA m : m[1].s # key)
Only(members, keys) == SelectSeq(members, LAMBDA m : \E i \in 1..Len(keys) : keys[i] = m[1].s)

\* StateChangeTime values: the test's, the same instant under other
\* offsets, instants where the float product falls below the integer, and
\* the last hour a datetime can hold, which in UTC is in the year 10000.
AlarmTimes == <<
    "2017-01-12T16:30:42.236+0000",
    "2017-01-12T17:30:42.236+0100",
    "2017-01-12T11:00:42.236-05:30",
    "2017-01-12T16:30:42.236Z",
    "2020-02-20T02:20:20.000+0000",
    "2017-01-12T16:30:42.236999+0000",
    "2004-02-01T12:42:53.093+0000",
    "2038-03-13T16:09:54.298+0000",
    "9999-12-31T23:59:59.999-0100" >>
\* StateChangeTime values strptime refuses.
BadAlarmTimes == << "2017-01-12T16:30:42+0000", "2017-01-12 16:30:42.236+0000",
                    "2017-02-30T16:30:42.236+0000", "yesterday" >>

ExampleAlarm == AlarmFields("Example alarm name", AlarmTimes[1])

ConverterMessages ==
    \* not JSON
    << <<TText("Instance i-0abc is unreachable")>>,
       <<Tok("{"), TStr("payload"), Tok(":")>>,
       <<>>,
    \* JSON, but no object
       JStr("just a string"), JNum(<<5>>), <<Tok("null")>>, <<Tok("true")>>,
       JArr(<<JObj(Discriminator)>>),
    \* objects that are neither an envelope nor an alarm
       JObj(<<>>), JObj(<<Member("a", JStr("b"))>>),
       JObj(<<Member("message_type", JStr("somethingElse"))>>),
       JObj(<<Member("message_type", <<Tok("null")>>)>>),
    \* the discriminator without an envelope
       JObj(Discriminator),
       JObj(Discriminator \o <<Member("payload", JStr("flat"))>>),
       JObj(Discriminator \o <<Member("payload", JObj(<<>>))>>),
       JObj(<<Member("payload", JArr(<<>>))>>),
    \* envelopes
       EnvelopeText(JStr("Disk full"), JNum(Ms2020), <<>>, <<>>, Discriminator),
       EnvelopeText(<<Tok("null")>>, JNum(Ms2020), <<>>, <<>>, <<>>),
       EnvelopeText(JNum(<<7>>), JNum(Ms2020), <<>>, <<>>, Discriminator) >>
    \o [i \in 1..Len(TitleLens) |->
          EnvelopeText(JStr(TitleOfLen(TitleLens[i])), JNum(Ms2020), <<>>, <<>>, <<>>)]
    \* alarms
    \o [i \in 1..Len(AlarmTimes) |-> JObj(AlarmFields("Example alarm name", AlarmTimes[i]))]
    \o [i \in 1..Len(BadAlarmTimes) |-> JObj(AlarmFields("Example alarm name", BadAlarmTimes[i]))]
    \o [i \in 1..Len(ConsumedFields) |-> JObj(Without(ExampleAlarm, ConsumedFields[i]))]
    \o << JObj(Only(ExampleAlarm, ConsumedFields)),
          JObj(AlarmFields(TitleOfLen(MaxTitleLen), AlarmTimes[1])),
          JObj(Without(ExampleAlarm, "StateChangeTime")
               \o <<Member("StateChangeTime", JNum(Ms2020))>>),
          JObj(ExampleAlarm \o Discriminator),
          EnvelopeText(JStr("Relayed alarm"), JNum(Ms2020), <<>>, <<>>, Discriminator \o ExampleAlarm),
    \* alarms without a member whose StateChangeTime strptime refuses
          JObj(Without(AlarmFields("Example alarm name", BadAlarmTimes[4]), "AlarmName")),
          JObj(Without(Without(ExampleAlarm, "StateChangeTime"), "Region")
               \o <<Member("StateChangeTime", JNum(Ms2020))>>),
    \* an envelope with the members of an alarm whose StateChangeTime
    \* strptime refuses
          EnvelopeText(JStr("Relayed alarm"), JNum(Ms2020), <<>>, <<>>,
                       Discriminator \o AlarmFields("Example alarm name", BadAlarmTimes[4])) >>

ConverterSubjects ==
    << Some("stdfMessage"), Some("ALARM: \"Example alarm name\" in EU - Ireland"),
       Some("ALARM: "), Some("ALARM:"), Some("alarm: lower case"),
       Some("stdf: Disk full"), Some("stdfMessage "), Some("Weekly report"),
       Some(""), None >>

\* The value v without what is at path; v has it.
RECURSIVE Drop(_, _)
Drop(v, path) ==
    IF Len(path) = 1
    THEN PyDict(SelectSeq(v.o, LAMBDA kv : kv[1] # path[1]))
    ELSE PyDict(DictSet(v.o, path[1], Drop(DictGet(v.o, path[1]), Tail(path))))
UrlText(url, text) == JObj(<<Member("url", JStr(url)), Member("text", JStr(text))>>)
TwoUrls == <<UrlText("https://example.com/runbook", "Runbook"),
             UrlText("https://example.com/dashboard", "Dashboard")>>
EventId == <<Member("event_id", JStr("2b1e7c4a-0001"))>>
\* The envelope of the Renderer's tests: the further members of
\* meta.source and of meta vary.
RenderedEnvelope(moreSource, moreMeta) ==
    EnvelopeText(JStr("Disk full"), JNum(Ms2020), moreSource, moreMeta, <<>>)
TimedEnvelope(ms) == EnvelopeText(JStr("Disk full"), ms, EventId, <<>>, <<>>)
\* What format_stdf looks up, in the order of lines 44-51, and what is on
\* the way there.
RequiredPaths == <<
    <<"meta">>, <<"meta", "source">>, <<"meta", "source", "app_name">>,
    <<"payload">>, <<"payload", "title">>, <<"payload", "description">>,
    <<"payload", "raw_data">>, <<"meta", "source", "provider">>,
    <<"meta", "source", "service">>, <<"meta", "source", "account_id">>,
    <<"meta", "timestamp">> >>
\* What the envelope has and format_stdf does not look up.
UnusedPaths == << <<"meta", "source", "region">>, <<"stdf_version">> >>
FullEnvelope == json_loads(RenderedEnvelope(EventId, <<Member("urls", JArr(TwoUrls))>>)).v

RendererMessages ==
    \* envelopes, with and without urls and event_id
    << RenderedEnvelope(<<>>, <<>>),
       RenderedEnvelope(EventId, <<Member("urls", JArr(TwoUrls))>>),
       RenderedEnvelope(<<>>, <<Member("urls", JArr(<<TwoUrls[1]>>))>>),
       RenderedEnvelope(EventId, <<>>),
       RenderedEnvelope(EventId, <<Member("urls", JArr(<<>>))>>),
       RenderedEnvelope(<<>>, <<Member("urls", <<Tok("null")>>)>>),
       RenderedEnvelope(<<Member("event_id", <<Tok("null")>>)>>, <<>>),
       RenderedEnvelope(<<Member("event_id", JNum(<<42>>))>>,
                        <<Member("urls", JArr(TwoUrls \o <<UrlText("https://example.com/3", "Third")>>))>>),
    \* urls that format_urls cannot walk
       RenderedEnvelope(<<>>, <<Member("urls", JArr(<<JObj(<<Member("url", JStr("https://example.com"))>>)>>))>>),
       RenderedEnvelope(<<>>, <<Member("urls", JArr(<<JStr("https://example.com")>>))>>),
       RenderedEnvelope(<<>>, <<Member("urls", JStr("https://example.com"))>>),
       RenderedEnvelope(<<>>, <<Member("urls", JNum(<<3>>))>>),
       RenderedEnvelope(<<>>, <<Member("urls", JObj(<<>>))>>),
    \* timestamps
       TimedEnvelope(JNum(<<>>)),
       TimedEnvelope(JNum(<<999>>)),
       TimedEnvelope(JNum(BigAdd(BigMulSmall(BigFromInt(1484238642), 1000), <<236>>))),
       TimedEnvelope(JNum(BigAdd(BigMulSmall(BigFromInt(951782399), 1000), <<999>>))),
       TimedEnvelope(JNum(BigAdd(BigMulSmall(MaxSeconds, 1000), <<999>>))),
       TimedEnvelope(JNum(BigMulSmall(BigAdd(MaxSeconds, <<1>>), 1000))),
       TimedEnvelope(JStr("2020-02-19T23:20:20Z")),
       TimedEnvelope(<<Tok("null")>>),
       TimedEnvelope(<<Tok("true")>>),
    \* other values where strings are expected
       EnvelopeText(JNum(<<7>>), JNum(Ms2020), <<>>, <<>>, Discriminator),
       EnvelopeText(<<Tok("null")>>, JNum(Ms2020), <<>>, <<>>, <<>>),
       json_dumps(PyDict(DictSet(FullEnvelope.o, "payload", PyStr("flat")))),
       json_dumps(PyDict(DictSet(FullEnvelope.o, "meta", PyList(<<>>)))),
    \* what the Converter makes of an alarm
       parse_metric_to_stdf(JObj(ExampleAlarm)).v,
    \* not JSON
       <<TText("Instance i-0abc is unreachable")>>,
       <<Tok("{"), TStr("payload"), Tok(":")>>,
       <<>>,
    \* JSON, but no object
       JStr("just a string"), JNum(<<5>>), <<Tok("null")>>, JArr(<<JObj(Discriminator)>>),
    \* objects that are no envelope
       JObj(<<>>), JObj(Discriminator), JObj(ExampleAlarm) >>
    \* envelopes without one of their members
    \o [i \in 1..Len(RequiredPaths) |-> json_dumps(Drop(FullEnvelope, RequiredPaths[i]))]
    \o [i \in 1..Len(UnusedPaths) |-> json_dumps(Drop(FullEnvelope, UnusedPaths[i]))]
    \* envelopes of another version, or from another region
    \o << json_dumps(PyDict(DictSet(FullEnvelope.o, "stdf_version", PyInt(<<1>>)))),
          json_dumps(PyDict(DictSet(FullEnvelope.o, "stdf_version", PyInt(<<3>>)))),
          json_dumps(PyDict(DictSet(FullEnvelope.o, "stdf_version", PyStr("two")))),
          EnvelopeText(JStr("Disk full"), JNum(Ms2020), <<Member("region", JStr("us-east-1"))>>,
                       <<>>, <<>>) >>

\* The subjects the fanout topic carries are strings: its publisher sets
\* one on every message.
RendererSubjects ==
    << "stdfMessage", "stdf: Disk full", "stdf: ", "stdf:", " stdf: Disk full",
       "STDF: Disk full", "stdfMessage ", "unrecognizedNonStdfMessage",
       "ALARM: \"Example alarm name\" in EU - Ireland", "",
       TruncateSubject("stdf: " \o TitleOfLen(MaxTitleLen)) >>

\* The webhook secret's SecretString.
SecretText(path) == JObj(<<Member("host", JStr("hooks.slack.com")), Member("path", JStr(path))>>)
Secrets == <<SecretText("/services/T0001/B0001/first"), SecretText("/services/T0002/B0002/second")>>
\* The statuses the webhook answers with.
Statuses == {HttpOk, 201, 500}

(***************************************************************************)
(* The state.                                                              *)
(***************************************************************************)
VARIABLES
    cEvent,      \* Converter: the event lambda_handler was invoked with
    cPc,         \* Converter: where lambda_handler is
    cArg,        \* Converter: the string to hand to post_stdf_string_to_sns
    cPublished,  \* Converter: the calls of sns.publish, in order
    cWarnings,   \* Converter: the records logged at warning level, in order
    cTrace,      \* Converter: the functions called and effects made, in order
    cExc,        \* Converter: the exception lambda_handler ended with
    cClock,      \* Converter: the host's clock at the invocation, in ticks
    rEvent,      \* Renderer: the event lambda_handler was invoked with
    rSecret,     \* Renderer: the SecretString of the webhook secret
    rPc,         \* Renderer: where lambda_handler is
    rWebhook,    \* Renderer: the local webhook
    rSlackMessage, \* Renderer: the local slack_message
    rError,      \* Renderer: the ValueError the except clause has caught
    rPosts,      \* Renderer: the requests made to the webhook, in order
    rFetches,    \* Renderer: the number of reads of the secret
    rTrace,      \* Renderer: the functions called and lines printed, in order
    rExc         \* Renderer: the exception lambda_handler ended with

cvars == <<cEvent, cPc, cArg, cPublished, cWarnings, cTrace, cExc, cClock>>
rvars == <<rEvent, rSecret, rPc, rWebhook, rSlackMessage, rError, rPosts, rFetches,
           rTrace, rExc>>
vars == <<cvars, rvars>>

NoExc == [exc |-> "", msg |-> ""]
Exc(r) == [exc |-> r.exc, msg |-> r.msg]

\* The Renderer before it is invoked.
RendererIdle ==
    /\ rEvent = Event(0, None, <<>>)
    /\ rSecret = <<>>
    /\ rPc = "idle"
    /\ rWebhook = PyNone
    /\ rSlackMessage = PyNone
    /\ rError = NoExc
    /\ rPosts = <<>>
    /\ rFetches = 0
    /\ rTrace = <<>>
    /\ rExc = NoExc
\* The Converter before it is invoked.
ConverterIdle ==
    /\ cEvent = Event(0, None, <<>>)
    /\ cPc = "idle"
    /\ cArg = <<>>
    /\ cPublished = <<>>
    /\ cWarnings = <<>>
    /\ cTrace = <<>>
    /\ cExc = NoExc
    /\ cClock = 0

ConverterInit ==
    /\ \E n \in 0..MaxRecords, i \in 1..Len(ConverterSubjects), j \in 1..Len(ConverterMessages) :
          /\ n = 0 => i = 1 /\ j = 1
          /\ cEvent = Event(n, ConverterSubjects[i], ConverterMessages[j])
    /\ cPc = "start"
    /\ cArg = <<>>
    /\ cPublished = <<>>
    /\ cWarnings = <<>>
    /\ cTrace = <<>>
    /\ cExc = NoExc
    /\ cClock = 0
    /\ RendererIdle

\* lines 78-80: log_event, error_if_not_exactly_one_record and
\* get_subject_and_message
ConverterValidate ==
    /\ cPc = "start"
    /\ \E check \in {error_if_not_exactly_one_record(cEvent)} :
       IF check.exc # ""
       THEN /\ cPc' = "raised"
            /\ cExc' = Exc(check)
            /\ cTrace' = cTrace \o <<"log_event", "error_if_not_exactly_one_record">>
       ELSE /\ cPc' = "classify"
            /\ cExc' = cExc
            /\ cTrace' = cTrace \o <<"log_event", "error_if_not_exactly_one_record",
                                     "get_subject_and_message">>
    /\ UNCHANGED <<cEvent, cArg, cPublished, cWarnings, cClock, rvars>>

\* The tests of the if without the except clause: what json.loads raises
\* reaches the caller.
ConverterClassify_uncaught ==
    /\ cPc = "classify"
    /\ \E sm \in {get_subject_and_message(cEvent)} :
       \E stdf \in {IsStdfMessage(sm.subject, sm.message)} :
           IF stdf.exc # ""
           THEN cPc' = "raised" /\ cExc' = Exc(stdf) /\ cArg' = cArg
           ELSE IF stdf.v
           THEN cPc' = "post_stdf" /\ cExc' = cExc /\ cArg' = sm.message
           ELSE IF IsMetricAlarm(sm.subject)
           THEN cPc' = "parse_metric" /\ cExc' = cExc /\ cArg' = cArg
           ELSE cPc' = "unrecognized" /\ cExc' = cExc /\ cArg' = cArg
    /\ UNCHANGED <<cEvent, cPublished, cWarnings, cTrace, cClock, rvars>>

\* lines 82-91: the tests of the if, and the except clause for what the
\* first test raises
ConverterClassify ==
    /\ cPc = "classify"
    /\ \E sm \in {get_subject_and_message(cEvent)} :
       \E stdf \in {IsStdfMessage(sm.subject, sm.message)} :
           IF stdf.exc = "JSONDecodeError"
           THEN cPc' = "unrecognized" /\ cExc' = cExc /\ cArg' = cArg
           ELSE IF stdf.exc # ""
           THEN cPc' = "raised" /\ cExc' = Exc(stdf) /\ cArg' = cArg
           ELSE IF stdf.v
           THEN cPc' = "post_stdf" /\ cExc' = cExc /\ cArg' = sm.message
           ELSE IF IsMetricAlarm(sm.subject)
           THEN cPc' = "parse_metric" /\ cExc' = cExc /\ cArg' = cArg
           ELSE cPc' = "unrecognized" /\ cExc' = cExc /\ cArg' = cArg
    /\ UNCHANGED <<cEvent, cPublished, cWarnings, cTrace, cClock, rvars>>

\* line 86 with the time of the conversion in the place of the alarm's
\* StateChangeTime: meta.timestamp is read off the host's clock.
ConverterParseMetric_stamped ==
    /\ cPc = "parse_metric"
    /\ \E stdf_message \in {parse_metric_to_stdf(get_subject_and_message(cEvent).message)} :
       IF stdf_message.exc = "JSONDecodeError"
       THEN cPc' = "unrecognized" /\ cExc' = cExc /\ cArg' = cArg
       ELSE IF stdf_message.exc # ""
       THEN cPc' = "raised" /\ cExc' = Exc(stdf_message) /\ cArg' = cArg
       ELSE /\ cPc' = "post_stdf" /\ cExc' = cExc
            /\ cArg' = json_dumps(PyDict(DictSet(json_loads(stdf_message.v).v.o, "meta",
                          PyDict(DictSet(DictGet(json_loads(stdf_message.v).v.o, "meta").o,
                                         "timestamp", PyInt(BigFromInt(cClock)))))))
    /\ cTrace' = Append(cTrace, "parse_metric_to_stdf")
    /\ UNCHANGED <<cEvent, cPublished, cWarnings, cClock, rvars>>

\* line 86 under an except clause that takes a lookup failure like a JSON
\* decode error: the message goes the unrecognized way.
ConverterParseMetric_lenient ==
    /\ cPc = "parse_metric"
    /\ \E stdf_message \in {parse_metric_to_stdf(get_subject_and_message(cEvent).message)} :
       IF stdf_message.exc \in {"JSONDecodeError", "KeyError"}
       THEN cPc' = "unrecognized" /\ cExc' = cExc /\ cArg' = cArg
       ELSE IF stdf_message.exc # ""
       THEN cPc' = "raised" /\ cExc' = Exc(stdf_message) /\ cArg' = cArg
       ELSE cPc' = "post_stdf" /\ cExc' = cExc /\ cArg' = stdf_message.v
    /\ cTrace' = Append(cTrace, "parse_metric_to_stdf")
    /\ UNCHANGED <<cEvent, cPublished, cWarnings, cClock, rvars>>

\* line 86 under an except clause of ValueError, which has what strptime
\* raises rerouted as well.
ConverterParseMetric_except_value_error ==
    /\ cPc = "parse_metric"
    /\ \E stdf_message \in {parse_metric_to_stdf(get_subject_and_message(cEvent).message)} :
       IF IsValueError(stdf_message.exc)
       THEN cPc' = "unrecognized" /\ cExc' = cExc /\ cArg' = cArg
       ELSE IF stdf_message.exc # ""
       THEN cPc' = "raised" /\ cExc' = Exc(stdf_message) /\ cArg' = cArg
       ELSE cPc' = "post_stdf" /\ cExc' = cExc /\ cArg' = stdf_message.v
    /\ cTrace' = Append(cTrace, "parse_metric_to_stdf")
    /\ UNCHANGED <<cEvent, cPublished, cWarnings, cClock, rvars>>

\* line 86
ConverterParseMetric ==
    /\ cPc = "parse_metric"
    /\ \E stdf_message \in {parse_metric_to_stdf(get_subject_and_message(cEvent).message)} :
       IF stdf_message.exc = "JSONDecodeError"
       THEN cPc' = "unrecognized" /\ cExc' = cExc /\ cArg' = cArg
       ELSE IF stdf_message.exc # ""
       THEN cPc' = "raised" /\ cExc' = Exc(stdf_message) /\ cArg' = cArg
       ELSE cPc' = "post_stdf" /\ cExc' = cExc /\ cArg' = stdf_message.v
    /\ cTrace' = Append(cTrace, "parse_metric_to_stdf")
    /\ UNCHANGED <<cEvent, cPublished, cWarnings, cClock, rvars>>

\* lines 84 and 87: post_stdf_string_to_sns; the fanout service accepts the
\* publish or refuses it (a botocore error, which nothing catches)
ConverterPostStdf ==
    /\ cPc = "post_stdf"
    /\ \E call \in {post_stdf_string_to_sns(cArg)}, accepted \in BOOLEAN :
       IF call.exc = "JSONDecodeError"
       THEN /\ cPc' = "unrecognized" /\ cExc' = cExc
            /\ cTrace' = Append(cTrace, "post_stdf_string_to_sns")
            /\ cPublished' = cPublished
       ELSE IF call.exc # ""
       THEN /\ cPc' = "raised" /\ cExc' = Exc(call)
            /\ cTrace' = Append(cTrace, "post_stdf_string_to_sns")
            /\ cPublished' = cPublished
       ELSE /\ cPublished' = Append(cPublished, call.v)
            /\ cTrace' = cTrace \o <<"post_stdf_string_to_sns", "sns.publish">>
            /\ cPc' = IF accepted THEN "done" ELSE "raised"
            /\ cExc' = IF accepted THEN cExc ELSE [exc |-> "ClientError", msg |-> "publish refused"]
    /\ UNCHANGED <<cEvent, cArg, cWarnings, cClock, rvars>>

\* lines 89 and 91 with the publish before the warning, which a refused
\* publish then never reaches.
ConverterPostUnrecognized_publish_first ==
    /\ cPc = "unrecognized"
    /\ \E accepted \in BOOLEAN :
          /\ cWarnings' = IF accepted
                          THEN Append(cWarnings, [logger |-> "Unrecognized Message Format",
                                                  event |-> cEvent])
                          ELSE cWarnings
          /\ cPublished' = Append(cPublished,
                 post_unrecognized_to_sns_and_warn(get_subject_and_message(cEvent).message))
          /\ cTrace' = cTrace \o (IF accepted
                                  THEN <<"post_unrecognized_to_sns_and_warn", "sns.publish", "log.warn">>
                                  ELSE <<"post_unrecognized_to_sns_and_warn", "sns.publish">>)
          /\ cPc' = IF accepted THEN "done" ELSE "raised"
          /\ cExc' = IF accepted THEN cExc ELSE [exc |-> "ClientError", msg |-> "publish refused"]
    /\ UNCHANGED <<cEvent, cArg, cClock, rvars>>

\* lines 89 and 91: post_unrecognized_to_sns_and_warn
ConverterPostUnrecognized ==
    /\ cPc = "unrecognized"
    /\ \E accepted \in BOOLEAN :
          /\ cWarnings' = Append(cWarnings, [logger |-> "Unrecognized Message Format",
                                             event |-> cEvent])
          /\ cPublished' = Append(cPublished,
                 post_unrecognized_to_sns_and_warn(get_subject_and_message(cEvent).message))
          /\ cTrace' = cTrace \o <<"post_unrecognized_to_sns_and_warn", "log.warn", "sns.publish">>
          /\ cPc' = IF accepted THEN "done" ELSE "raised"
          /\ cExc' = IF accepted THEN cExc ELSE [exc |-> "ClientError", msg |-> "publish refused"]
    /\ UNCHANGED <<cEvent, cArg, cClock, rvars>>

ConverterNext ==
    \/ ConverterValidate
    \/ ConverterClassify
    \/ ConverterParseMetric
    \/ ConverterPostStdf
    \/ ConverterPostUnrecognized

SpecConverter == ConverterInit /\ [][ConverterNext]_vars


(***************************************************************************)
(* The host invokes the Converter again on the same notification, as after *)
(* a crash or a redelivery: the handler starts afresh at a later time,    *)
(* while what the earlier invocation published and logged stays in the     *)
(* world.  The trace keeps how the earlier invocation ended.               *)
(***************************************************************************)
\* The number of invocations on one notification.
MaxInvocations == 2
\* How an invocation ended, as the host sees it.
EndOf(exc) == IF exc.exc = "" THEN "return" ELSE "raise " \o exc.exc \o ": " \o exc.msg

ConverterReinvoke ==
    /\ cPc \in {"done", "raised"}
    /\ cClock + 1 < MaxInvocations
    /\ cClock' = cClock + 1
    /\ cPc' = "start"
    /\ cArg' = <<>>
    /\ cExc' = NoExc
    /\ cTrace' = Append(cTrace, EndOf(cExc))
    /\ UNCHANGED <<cEvent, cPublished, cWarnings, rvars>>

SpecReinvoked == ConverterInit /\ [][ConverterNext \/ ConverterReinvoke]_vars

(***************************************************************************)
(* The Renderer's lambda_handler, src/lambda_slack/lambda_function.py      *)
(* lines 154-171.                                                          *)
(***************************************************************************)
get_webhook(secret) == json_loads(secret)
\* The name of the error's type in the place of str(error).
StrOfError_type(error) == error.exc

\* str(error) for a caught error; the place json.loads adds to its message
\* (line, column, char) is left out.
StrOfError(error) == error.msg

RendererInit ==
    /\ \E n \in 0..MaxRecords, i \in 1..Len(RendererSubjects), j \in 1..Len(RendererMessages) :
          /\ n = 0 => i = 1 /\ j = 1
          /\ rEvent = Event(n, Some(RendererSubjects[i]), RendererMessages[j])
    /\ \E k \in 1..Len(Secrets) : rSecret = Secrets[k]
    /\ rPc = "start"
    /\ rWebhook = PyNone
    /\ rSlackMessage = PyNone
    /\ rError = NoExc
    /\ rPosts = <<>>
    /\ rFetches = 0
    /\ rTrace = <<>>
    /\ rExc = NoExc
    /\ ConverterIdle

\* lines 155-156
RendererValidate ==
    /\ rPc = "start"
    /\ \E check \in {error_if_not_exactly_one_record(rEvent)} :
       IF check.exc # ""
       THEN /\ rPc' = "raised"
            /\ rExc' = Exc(check)
            /\ rTrace' = Append(rTrace, "error_if_not_exactly_one_record")
       ELSE /\ rPc' = "get_webhook"
            /\ rExc' = rExc
            /\ rTrace' = rTrace \o <<"error_if_not_exactly_one_record", "get_subject_and_message">>
    /\ UNCHANGED <<rEvent, rSecret, rWebhook, rSlackMessage, rError, rPosts, rFetches, cvars>>

\* line 157 with the webhook kept between invocations: the secret is read
\* only when no earlier invocation has left a webhook behind.
RendererGetWebhook_cached ==
    /\ rPc = "get_webhook"
    /\ rWebhook' = IF rWebhook # PyNone THEN rWebhook ELSE get_webhook(rSecret).v
    /\ rFetches' = IF rWebhook # PyNone THEN rFetches ELSE rFetches + 1
    /\ rTrace' = Append(rTrace, "get_webhook")
    /\ rPc' = "route"
    /\ UNCHANGED <<rEvent, rSecret, rSlackMessage, rError, rPosts, rExc, cvars>>

\* line 157
RendererGetWebhook ==
    /\ rPc = "get_webhook"
    /\ rWebhook' = get_webhook(rSecret).v
    /\ rFetches' = rFetches + 1
    /\ rTrace' = Append(rTrace, "get_webhook")
    /\ rPc' = "route"
    /\ UNCHANGED <<rEvent, rSecret, rSlackMessage, rError, rPosts, rExc, cvars>>

\* line 159
RendererRoute ==
    /\ rPc = "route"
    /\ \E bypass \in {IsBypass(get_subject_and_message(rEvent).subject)} :
       IF bypass.exc # ""
       THEN rPc' = "raised" /\ rExc' = Exc(bypass)
       ELSE rPc' = (IF bypass.v THEN "bypass" ELSE "format") /\ rExc' = rExc
    /\ UNCHANGED <<rEvent, rSecret, rWebhook, rSlackMessage, rError, rPosts, rFetches,
                   rTrace, cvars>>

\* The bypass inside the try: what its post_to_slack raises is caught and
\* answered with the fallback of the except clause.
RendererBypass_guarded ==
    /\ rPc = "bypass"
    /\ \E sm \in {get_subject_and_message(rEvent)}, status \in Statuses :
          /\ rPosts' = Append(rPosts, SlackRequest(rWebhook,
                                  format_fallback(sm.message, sm.subject.s), status))
          /\ rPc' = IF PostOutcome(status).exc # "" THEN "fallback" ELSE "done"
          /\ rError' = IF PostOutcome(status).exc # "" THEN Exc(PostOutcome(status)) ELSE rError
    /\ rTrace' = rTrace \o <<"format_fallback", "post_to_slack">>
    /\ UNCHANGED <<rEvent, rSecret, rWebhook, rSlackMessage, rExc, rFetches, cvars>>

\* lines 160-162: the fallback rendering under the subject, outside the try
RendererBypass ==
    /\ rPc = "bypass"
    /\ \E sm \in {get_subject_and_message(rEvent)}, status \in Statuses :
          /\ rPosts' = Append(rPosts, SlackRequest(rWebhook,
                                  format_fallback(sm.message, sm.subject.s), status))
          /\ rPc' = IF PostOutcome(status).exc # "" THEN "raised" ELSE "done"
          /\ rExc' = IF PostOutcome(status).exc # "" THEN Exc(PostOutcome(status)) ELSE rExc
    /\ rTrace' = rTrace \o <<"format_fallback", "post_to_slack">>
    /\ UNCHANGED <<rEvent, rSecret, rWebhook, rSlackMessage, rError, rFetches, cvars>>

\* line 165, and the except clause of line 168 for what format_stdf raises
RendererFormat ==
    /\ rPc = "format"
    /\ \E slack_message \in {format_stdf(get_subject_and_message(rEvent).message)} :
       IF slack_message.exc = ""
       THEN /\ rSlackMessage' = slack_message.v
            /\ rPc' = "post" /\ rError' = rError /\ rExc' = rExc
       ELSE IF IsValueError(slack_message.exc)
       THEN /\ rError' = Exc(slack_message)
            /\ rPc' = "fallback" /\ rSlackMessage' = rSlackMessage /\ rExc' = rExc
       ELSE /\ rExc' = Exc(slack_message)
            /\ rPc' = "raised" /\ rSlackMessage' = rSlackMessage /\ rError' = rError
    /\ rTrace' = Append(rTrace, "format_stdf")
    /\ UNCHANGED <<rEvent, rSecret, rWebhook, rPosts, rFetches, cvars>>

\* lines 166-167 with the fallback of lines 169-171 in a finally clause,
\* which runs after a delivered message as well.
RendererPost_finally ==
    /\ rPc = "post"
    /\ \E status \in Statuses :
          /\ rPosts' = Append(rPosts, SlackRequest(rWebhook, rSlackMessage, status))
          /\ rPc' = "fallback"
          /\ IF PostOutcome(status).exc # ""
             THEN /\ rError' = Exc(PostOutcome(status))
                  /\ rTrace' = Append(rTrace, "post_to_slack")
             ELSE /\ rError' = rError
                  /\ rTrace' = rTrace \o <<"post_to_slack", "print: Message sent to Slack">>
    /\ UNCHANGED <<rEvent, rSecret, rWebhook, rSlackMessage, rFetches, rExc, cvars>>

\* lines 166-167, and the except clause of line 168 for what post_to_slack
\* raises
RendererPost ==
    /\ rPc = "post"
    /\ \E status \in Statuses :
          /\ rPosts' = Append(rPosts, SlackRequest(rWebhook, rSlackMessage, status))
          /\ IF PostOutcome(status).exc # ""
             THEN /\ rPc' = "fallback"
                  /\ rError' = Exc(PostOutcome(status))
                  /\ rTrace' = Append(rTrace, "post_to_slack")
             ELSE /\ rPc' = "done"
                  /\ rError' = rError
                  /\ rTrace' = rTrace \o <<"post_to_slack", "print: Message sent to Slack">>
    /\ UNCHANGED <<rEvent, rSecret, rWebhook, rSlackMessage, rFetches, rExc, cvars>>

\* lines 169-171: the fallback rendering under str(error); what its
\* post_to_slack raises nothing catches
RendererFallback ==
    /\ rPc = "fallback"
    /\ \E sm \in {get_subject_and_message(rEvent)}, status \in Statuses :
          /\ rPosts' = Append(rPosts, SlackRequest(rWebhook,
                                  format_fallback(sm.message, StrOfError(rError)), status))
          /\ IF PostOutcome(status).exc # ""
             THEN /\ rPc' = "raised"
                  /\ rExc' = Exc(PostOutcome(status))
                  /\ rTrace' = rTrace \o <<"format_fallback", "post_to_slack">>
             ELSE /\ rPc' = "done"
                  /\ rExc' = rExc
                  /\ rTrace' = rTrace \o <<"format_fallback", "post_to_slack",
                                           "print: Message sent to Slack in fallback mode">>
    /\ UNCHANGED <<rEvent, rSecret, rWebhook, rSlackMessage, rError, rFetches, cvars>>

RendererNext ==
    \/ RendererValidate
    \/ RendererGetWebhook
    \/ RendererRoute
    \/ RendererBypass
    \/ RendererFormat
    \/ RendererPost
    \/ RendererFallback

SpecRenderer == RendererInit /\ [][RendererNext]_vars


\* Either stage is invoked with an event.
SpecStages == (ConverterInit \/ RendererInit) /\ [][ConverterNext \/ RendererNext]_vars

(***************************************************************************)
(* Invocations side by side.  The two stages are two functions of the      *)
(* host: an invocation of the Converter and invocations of the Renderer    *)
(* take their steps in any order.  When an invocation of the Renderer has  *)
(* ended the host may invoke it again in the same process on the next      *)
(* notification, the secret rotated or not in between: the locals of the   *)
(* handler keep what the earlier invocation left in them until they are    *)
(* assigned, and rPosts and rFetches go on counting.                       *)
(***************************************************************************)
\* The notifications of the invocations side by side.
InterleavedConverterEvents ==
    << Event(1, Some("stdfMessage"), EnvelopeText(JStr("Disk full"), JNum(Ms2020), <<>>, <<>>, <<>>)),
       Event(1, Some("ALARM: \"Example alarm name\" in EU - Ireland"), JObj(ExampleAlarm)),
       Event(1, Some("Weekly report"), <<TText("Instance i-0abc is unreachable")>>) >>
InterleavedRendererEvents ==
    << Event(1, Some("stdfMessage"), RenderedEnvelope(EventId, <<Member("urls", JArr(TwoUrls))>>)),
       Event(1, Some("stdf: Disk full"), <<TText("Instance i-0abc is unreachable")>>),
       Event(1, Some("unrecognizedNonStdfMessage"), JObj(ExampleAlarm)),
       Event(1, Some("stdf: Disk full"), JObj(<<>>)) >>

InterleavedInit ==
    /\ \E i \in 1..Len(InterleavedConverterEvents) : cEvent = InterleavedConverterEvents[i]
    /\ cPc = "start"
    /\ cArg = <<>>
    /\ cPublished = <<>>
    /\ cWarnings = <<>>
    /\ cTrace = <<>>
    /\ cExc = NoExc
    /\ cClock = 0
    /\ \E j \in 1..Len(InterleavedRendererEvents) : rEvent = InterleavedRendererEvents[j]
    /\ \E k \in 1..Len(Secrets) : rSecret = Secrets[k]
    /\ rPc = "start"
    /\ rWebhook = PyNone
    /\ rSlackMessage = PyNone
    /\ rError = NoExc
    /\ rPosts = <<>>
    /\ rFetches = 0
    /\ rTrace = <<>>
    /\ rExc = NoExc

\* The invocations of the Renderer that have ended.
RendererEnds == {i \in 1..Len(rTrace) : rTrace[i] = "return" \/ StartsWith(rTrace[i], "raise ")}

RendererReinvoke ==
    /\ rPc \in {"done", "raised"}
    /\ Cardinality(RendererEnds) + 1 < MaxInvocations
    /\ \E j \in 1..Len(InterleavedRendererEvents) :
          /\ rEvent = InterleavedRendererEvents[j]
          /\ rEvent' = InterleavedRendererEvents[(j % Len(InterleavedRendererEvents)) + 1]
    /\ \E k \in 1..Len(Secrets) : rSecret' = Secrets[k]
    /\ rPc' = "start"
    /\ rExc' = NoExc
    /\ rTrace' = Append(rTrace, EndOf(rExc))
    /\ UNCHANGED <<rWebhook, rSlackMessage, rError, rPosts, rFetches, cvars>>

SpecInterleaved == InterleavedInit /\ [][ConverterNext \/ RendererNext \/ RendererReinvoke]_vars

(***************************************************************************)
(* The two stages in a row: the fanout topic hands a publish it accepted   *)
(* from the Converter to the Renderer, as an event of one record with the  *)
(* publish's Subject and Message.                                          *)
(***************************************************************************)
FanoutDeliver ==
    /\ cPc = "done" /\ cPublished # <<>>
    /\ rPc = "idle"
    /\ rEvent' = Event(1, Some(cPublished[Len(cPublished)].Subject),
                       cPublished[Len(cPublished)].Message)
    /\ \E k \in 1..Len(Secrets) : rSecret' = Secrets[k]
    /\ rPc' = "start"
    /\ UNCHANGED <<rWebhook, rSlackMessage, rError, rPosts, rFetches, rTrace, rExc, cvars>>

SpecPipeline == ConverterInit /\ [][ConverterNext \/ FanoutDeliver \/ RendererNext]_vars

(***************************************************************************)
(* The claims about the Converter.                                         *)
(***************************************************************************)
InTrace(trace, name) == \E i \in 1..Len(trace) : trace[i] = name
ConverterEnded == cPc \in {"done", "raised"}
ConverterOneRecord == Len(cEvent.Records) = 1
cSubject == get_subject_and_message(cEvent).subject
cMessage == get_subject_and_message(cEvent).message
\* The inbound body is a JSON object / one with the canonical discriminator.
IsJsonObject(message) == json_loads(message).exc = "" /\ json_loads(message).v.k = "dict"
HasDiscriminator(message) ==
    /\ IsJsonObject(message)
    /\ DictHas(json_loads(message).v.o, "message_type")
    /\ IsStr(DictGet(json_loads(message).v.o, "message_type"), "stdfMessage")
\* payload.title of a body, as a result
TitleOf(message) == Then(Then(json_loads(message), "payload"), "title")

\* C1: every invocation of the Converter on an event of exactly one record
\* has made exactly one publish to the fanout topic when it ends, whatever
\* the subject and the body.
C1_NoDrop ==
    (ConverterEnded /\ ConverterOneRecord) =>
        /\ Len(cPublished) = 1
        /\ cPublished[1].TopicArn = OutgoingSnsTopic

\* The publish of the canonical forwarder: the inbound body unchanged under
\* 'stdf: ' + payload.title, cut by the subject rule, and neither the alarm
\* transform nor the unrecognized path taken.
ForwardedUnchanged ==
    /\ Len(cPublished) = 1
    /\ cPublished[1].TopicArn = OutgoingSnsTopic
    /\ cPublished[1].Message = cMessage
    /\ TitleOf(cMessage).exc = ""
    /\ cPublished[1].Subject = TruncateSubject("stdf: " \o PyFormat(TitleOf(cMessage).v))
    /\ cWarnings = <<>>
    /\ ~InTrace(cTrace, "parse_metric_to_stdf")
    /\ ~InTrace(cTrace, "post_unrecognized_to_sns_and_warn")

\* C5 as stated: whenever the inbound subject equals 'stdfMessage', the
\* Converter publishes exactly the inbound body under 'stdf: ' + the
\* envelope's payload.title (cut by the subject rule), without the alarm
\* transform and without the unrecognized path.
C5_ForwardingAnyBody ==
    (ConverterEnded /\ ConverterOneRecord /\ SubjectIs(cSubject, "stdfMessage"))
        => ForwardedUnchanged

\* C5 as amended: when the inbound subject equals 'stdfMessage' and the
\* body is JSON that carries payload.title, the Converter publishes exactly
\* the inbound body under 'stdf: ' + payload.title (cut by the subject
\* rule), without the alarm transform and without the unrecognized path.
C5_Forwarding ==
    (/\ ConverterEnded /\ ConverterOneRecord
     /\ SubjectIs(cSubject, "stdfMessage")
     /\ TitleOf(cMessage).exc = "")
        => ForwardedUnchanged
\* An envelope under the sentinel subject has been forwarded, its subject
\* cut.
C5_Witness ==
    /\ cPc = "done" /\ ConverterOneRecord
    /\ SubjectIs(cSubject, "stdfMessage")
    /\ ~HasDiscriminator(cMessage)
    /\ Len(cPublished) = 1
    /\ cPublished[1].Message = cMessage
    /\ EndsWith(cPublished[1].Subject, "[TRUNCATED]")

\* post_stdf_string_to_sns has published: the one publish is not the
\* unrecognized one. cArg is the string it was called with.
PostedStdf ==
    /\ Len(cPublished) = 1
    /\ InTrace(cTrace, "post_stdf_string_to_sns")
    /\ ~InTrace(cTrace, "post_unrecognized_to_sns_and_warn")
\* The subject rule for the constructed subject s and the published one.
SubjectRule(s, published) ==
    /\ Len(s) <= 99 => published = s
    /\ Len(s) > 99 => /\ published = SubSeq(s, 1, 88) \o "[TRUNCATED]"
                      /\ Len(published) = 99
    /\ Len(published) <= 99
    /\ Len(published) <= 100

\* C6: with s = 'stdf: ' + title, post_stdf_string_to_sns publishes s
\* unchanged when len(s) <= 99 and the first 88 characters of s followed by
\* '[TRUNCATED]' when len(s) > 99; a published subject has at most 99
\* characters and a truncated one exactly 99.
C6_SubjectTruncation ==
    PostedStdf => SubjectRule("stdf: " \o PyFormat(TitleOf(cArg).v), cPublished[1].Subject)
\* A subject of 100 characters has been constructed and published cut.
C6_Witness ==
    /\ PostedStdf
    /\ Len("stdf: " \o PyFormat(TitleOf(cArg).v)) = 100
    /\ Len(cPublished[1].Subject) = 99


\* parse_metric_to_stdf has returned: cArg is the envelope it made of the
\* inbound body.
Transformed == InTrace(cTrace, "parse_metric_to_stdf") /\ cArg # <<>>
\* A vendor alarm record with all the consumed fields: a JSON object that
\* has them, its StateChangeTime a string in the vendor's time format.
IsAlarmRecord(message) ==
    /\ IsJsonObject(message)
    /\ \A i \in 1..Len(ConsumedFields) : DictHas(json_loads(message).v.o, ConsumedFields[i])
    /\ DictGet(json_loads(message).v.o, "StateChangeTime").k = "str"
    /\ Strptime(DictGet(json_loads(message).v.o, "StateChangeTime").s).exc = ""
\* The record a without the fields parse_metric_to_stdf does not read.
ConsumedOnly(a) ==
    PyDict(SelectSeq(a.o, LAMBDA kv : \E i \in 1..Len(ConsumedFields) : ConsumedFields[i] = kv[1]))
Pairs(d) == {d.o[i] : i \in 1..Len(d.o)}
\* The envelope e maps the alarm record a field by field.
AlarmMapping(e, a) ==
    /\ DictGet(DictGet(e.o, "payload").o, "title") = DictGet(a.o, "AlarmName")
    /\ DictGet(DictGet(e.o, "payload").o, "description") = DictGet(a.o, "AlarmDescription")
    /\ DictGet(DictGet(e.o, "payload").o, "raw_data") = DictGet(a.o, "NewStateReason")
    /\ Len(DictGet(DictGet(e.o, "meta").o, "source").o) = 5
    /\ Pairs(DictGet(DictGet(e.o, "meta").o, "source")) =
          { <<"provider", PyStr("AWS")>>,
            <<"account_id", DictGet(a.o, "AWSAccountId")>>,
            <<"region", DictGet(a.o, "Region")>>,
            <<"service", PyStr("CloudWatch")>>,
            <<"app_name", PyStr("Metric Alarm")>> }
    /\ ~DictHas(DictGet(DictGet(e.o, "meta").o, "source").o, "event_id")
    /\ DictGet(DictGet(e.o, "meta").o, "urls").k = "list"
    /\ Len(DictGet(DictGet(e.o, "meta").o, "urls").a) = 1
    /\ Len(DictGet(DictGet(e.o, "meta").o, "urls").a[1].o) = 2
    /\ EndsWith(DictGet(DictGet(DictGet(e.o, "meta").o, "urls").a[1].o, "url").s,
                "alarm/" \o DictGet(a.o, "AlarmName").s)
    /\ DictGet(DictGet(DictGet(e.o, "meta").o, "urls").a[1].o, "text") = PyStr("Show alarm details")
    /\ DictGet(e.o, "stdf_version") = PyInt(<<2>>)

\* C7: for every alarm record with all the consumed fields,
\* parse_metric_to_stdf yields an envelope whose title, description and
\* raw_data are AlarmName, AlarmDescription and NewStateReason, whose
\* meta.source is provider 'AWS', the record's account id and region,
\* service 'CloudWatch' and app_name 'Metric Alarm' without an event_id,
\* whose meta.urls is one entry ending in 'alarm/' + AlarmName with the
\* text 'Show alarm details', and whose stdf_version is 2; the record's
\* other fields do not change it.
C7_AlarmMapping ==
    (InTrace(cTrace, "parse_metric_to_stdf") /\ IsAlarmRecord(cMessage)) =>
        /\ Transformed
        /\ json_loads(cArg).exc = ""
        /\ AlarmMapping(json_loads(cArg).v, json_loads(cMessage).v)
        /\ Ok(cArg) = parse_metric_to_stdf(json_dumps(ConsumedOnly(json_loads(cMessage).v)))
\* An alarm record with fields the transform does not read has been
\* transformed.
C7_Witness ==
    /\ Transformed
    /\ IsAlarmRecord(cMessage)
    /\ DictHas(json_loads(cMessage).v.o, "NewStateValue")
    /\ DictHas(json_loads(cMessage).v.o, "OldStateValue")

\* The milliseconds since the epoch of the instant the time string names,
\* in whole numbers.
EpochMillis(time) == BigDivSmall(TotalMicroseconds(Strptime(time).v), 1000).q
\* meta.timestamp of an envelope's text
TimestampIn(stdf_message) == DictGet(DictGet(json_loads(stdf_message).v.o, "meta").o, "timestamp")

\* C8: meta.timestamp made by parse_metric_to_stdf is the integer number
\* of milliseconds since the epoch of the instant StateChangeTime names,
\* its offset taken into account; '2017-01-12T16:30:42.236+0000' gives
\* 1484238642236.
C8_Timestamp ==
    (Transformed /\ IsAlarmRecord(cMessage)) =>
        /\ TimestampIn(cArg) =
              PyInt(EpochMillis(DictGet(json_loads(cMessage).v.o, "StateChangeTime").s))
        /\ IsStr(DictGet(json_loads(cMessage).v.o, "StateChangeTime"), "2017-01-12T16:30:42.236+0000")
              => BigToStr(TimestampIn(cArg).n) = "1484238642236"

\* How an invocation has ended: with the canonical forward, with the alarm
\* transform's envelope published, or with the unrecognized publish.
OutcomeForwarded ==
    /\ PostedStdf /\ ~InTrace(cTrace, "parse_metric_to_stdf")
    /\ cPublished[1].Message = cMessage
OutcomeTransformed == PostedStdf /\ InTrace(cTrace, "parse_metric_to_stdf")
OutcomeUnrecognized ==
    /\ Len(cPublished) = 1 /\ InTrace(cTrace, "post_unrecognized_to_sns_and_warn")
    /\ cPublished[1].Subject = "unrecognizedNonStdfMessage"
Outcomes == {o \in {"forwarded", "transformed", "unrecognized"} :
                \/ o = "forwarded" /\ OutcomeForwarded
                \/ o = "transformed" /\ OutcomeTransformed
                \/ o = "unrecognized" /\ OutcomeUnrecognized}

\* C9: the canonical test (subject 'stdfMessage', or a JSON object body
\* whose message_type is 'stdfMessage') comes before the alarm test
\* (subject starts with 'ALARM: '), which comes before the unrecognized
\* default: a message under an 'ALARM: ' subject whose body carries the
\* discriminator is forwarded unchanged and not handed to
\* parse_metric_to_stdf, and every invocation ends in exactly one of the
\* three outcomes.
C9_Priority ==
    (ConverterEnded /\ ConverterOneRecord) =>
        /\ Cardinality(Outcomes) = 1
        /\ (IsMetricAlarm(cSubject) /\ HasDiscriminator(cMessage)) =>
              OutcomeForwarded /\ ~InTrace(cTrace, "parse_metric_to_stdf")
        /\ (SubjectIs(cSubject, "stdfMessage") \/ HasDiscriminator(cMessage)) =>
              ~OutcomeTransformed
        /\ OutcomeTransformed => IsMetricAlarm(cSubject)

\* C10: when the subject is neither 'stdfMessage' nor 'ALARM: '-prefixed
\* and the body is a JSON object without the discriminator, the Converter
\* logs the whole inbound event once at warning level on the logger
\* 'Unrecognized Message Format' and publishes the original body under the
\* subject 'unrecognizedNonStdfMessage', and calls neither the alarm
\* transform nor the canonical forwarder.
C10_Unrecognized ==
    (/\ ConverterEnded /\ ConverterOneRecord
     /\ ~SubjectIs(cSubject, "stdfMessage")
     /\ (cSubject.isNone \/ ~StartsWith(cSubject.s, "ALARM: "))
     /\ IsJsonObject(cMessage) /\ ~HasDiscriminator(cMessage))
        => /\ cWarnings = <<[logger |-> "Unrecognized Message Format", event |-> cEvent]>>
           /\ cPublished = <<[TopicArn |-> OutgoingSnsTopic,
                              Subject |-> "unrecognizedNonStdfMessage",
                              Message |-> cMessage]>>
           /\ ~InTrace(cTrace, "parse_metric_to_stdf")
           /\ ~InTrace(cTrace, "post_stdf_string_to_sns")
\* A JSON object under a subject that only resembles the alarm prefix has
\* gone the unrecognized way.
C10_Witness ==
    /\ cPc = "done" /\ ConverterOneRecord
    /\ SubjectIs(cSubject, "ALARM:")
    /\ IsJsonObject(cMessage) /\ ~HasDiscriminator(cMessage)
    /\ Len(json_loads(cMessage).v.o) > 0
    /\ Len(cWarnings) = 1 /\ Len(cPublished) = 1


\* The publish the fanout service may refuse is the only thing that keeps
\* lambda_handler from returning once a body has gone the unrecognized way.
ReturnedOrRefused ==
    \/ cPc = "done" /\ cExc = NoExc
    \/ cPc = "raised" /\ cExc.exc = "ClientError"

\* C11: for every subject, a body that does not parse as JSON makes the
\* Converter's lambda_handler return after exactly one publish of the
\* original body under 'unrecognizedNonStdfMessage' and exactly one
\* warning; no JSON decode error reaches the caller.
C11_MalformedJson ==
    (ConverterEnded /\ ConverterOneRecord /\ json_loads(cMessage).exc = "JSONDecodeError")
        => /\ cPublished = <<[TopicArn |-> OutgoingSnsTopic,
                              Subject |-> "unrecognizedNonStdfMessage",
                              Message |-> cMessage]>>
           /\ cWarnings = <<[logger |-> "Unrecognized Message Format", event |-> cEvent]>>
           /\ cExc.exc # "JSONDecodeError"
           /\ ReturnedOrRefused
\* A body that is not JSON under the canonical subject: the forwarder has
\* raised on it, and the handler has returned after the unrecognized
\* publish.
C11_Witness ==
    /\ cPc = "done" /\ ConverterOneRecord
    /\ SubjectIs(cSubject, "stdfMessage")
    /\ json_loads(cMessage).exc = "JSONDecodeError"
    /\ InTrace(cTrace, "post_stdf_string_to_sns")
    /\ Len(cPublished) = 1 /\ Len(cWarnings) = 1


(***************************************************************************)
(* The claims about the Renderer, and about both stages.                   *)
(***************************************************************************)
RendererEnded == rPc \in {"done", "raised"}
RendererOneRecord == Len(rEvent.Records) = 1
rSubject == get_subject_and_message(rEvent).subject
rMessage == get_subject_and_message(rEvent).message
\* The subject sends the message down the primary path.
PrimaryPath == SubjectIs(rSubject, "stdfMessage") \/ StartsWith(rSubject.s, "stdf: ")
\* Rendering has failed, or the delivery of the rendering has.
PrimaryFailed ==
    \/ format_stdf(rMessage).exc # ""
    \/ Len(rPosts) >= 1 /\ rPosts[1].status # 200
\* The request's body is a fallback text: a reason, the fixed sentence and
\* the raw inbound body.
IsFallback(request) ==
    /\ json_loads(request.body).exc = ""
    /\ json_loads(request.body).v.k = "dict"
    /\ DictKeys(json_loads(request.body).v.o) = <<"text">>
    /\ DictGet(json_loads(request.body).v.o, "text").k = "str"
    /\ EndsWith(DictGet(json_loads(request.body).v.o, "text").s,
                ". Failed to format the message. Using fallback mode!\n" \o TextOf(rMessage, 1))
FallbackPosts == {p \in 1..Len(rPosts) : IsFallback(rPosts[p])}
\* The request went to the webhook the secret names.
ToWebhook(request) ==
    /\ PyStr(request.host) = DictGet(json_loads(rSecret).v.o, "host")
    /\ PyStr(request.path) = DictGet(json_loads(rSecret).v.o, "path")

\* C2: on the primary path every failure of rendering or delivery (a body
\* that is not JSON, a missing envelope field, a non-success status) is
\* caught in lambda_handler and followed by exactly one fallback delivery,
\* the reason and the raw body, to the same webhook.
C2_FailureRecovery ==
    (RendererEnded /\ RendererOneRecord /\ PrimaryPath /\ PrimaryFailed) =>
        /\ Cardinality(FallbackPosts) = 1
        /\ \A p \in 1..Len(rPosts) : ToWebhook(rPosts[p])
        /\ IsFallback(rPosts[Len(rPosts)])
        /\ rExc.exc # "" => rPosts[Len(rPosts)].status # 200

\* C3: every invocation of the Renderer on an event of one record has
\* attempted one or two POSTs when it ends, one when the first is
\* accepted, and never none.
C3_Delivery ==
    (RendererEnded /\ RendererOneRecord) =>
        /\ Len(rPosts) >= 1
        /\ Len(rPosts) <= 2
        /\ rPosts[1].status = 200 => Len(rPosts) = 1

\* The message of the batch-shape error for n records.
BatchShapeMessage(n) ==
    "Received SNS message with " \o BigToStr(BigFromInt(n))
    \o " records. This should never happen: AWS states all lambda SNS messages will always have exactly one record."

\* C4: for an event of n # 1 records both stages raise an error whose
\* message states n, before any publish, warning, read of the secret or
\* POST; for n = 1 the check passes.
C4_BatchShape ==
    /\ (cPc \notin {"idle", "start"} /\ Len(cEvent.Records) # 1) =>
          /\ cPc = "raised"
          /\ cExc = [exc |-> "Exception", msg |-> BatchShapeMessage(Len(cEvent.Records))]
          /\ cPublished = <<>> /\ cWarnings = <<>>
          /\ ~InTrace(cTrace, "get_subject_and_message")
    /\ (rPc \notin {"idle", "start"} /\ Len(rEvent.Records) # 1) =>
          /\ rPc = "raised"
          /\ rExc = [exc |-> "Exception", msg |-> BatchShapeMessage(Len(rEvent.Records))]
          /\ rPosts = <<>> /\ rFetches = 0
          /\ ~InTrace(rTrace, "get_webhook")
    /\ (cPc \notin {"idle", "start"} /\ Len(cEvent.Records) = 1) =>
          /\ InTrace(cTrace, "get_subject_and_message")
          /\ cExc.exc # "Exception"
    /\ (rPc \notin {"idle", "start"} /\ Len(rEvent.Records) = 1) =>
          /\ InTrace(rTrace, "get_subject_and_message")
          /\ rExc.exc # "Exception"
\* The Renderer has refused an event of two records.
C4_Witness ==
    /\ rPc = "raised"
    /\ Len(rEvent.Records) = 2
    /\ rFetches = 0 /\ rPosts = <<>>


\* The fallback text for a reason, and a request whose body is the JSON
\* object of that one text.
FallbackText(reason) ==
    reason \o ". Failed to format the message. Using fallback mode!\n" \o TextOf(rMessage, 1)
CarriesText(request, text) ==
    /\ json_loads(request.body).exc = ""
    /\ json_loads(request.body).v = PyDict(<< <<"text", PyStr(text)>> >>)
\* The request's body is the structured message format_stdf builds of the
\* inbound body.
CarriesBlocks(request) ==
    /\ format_stdf(rMessage).exc = ""
    /\ json_loads(request.body).exc = ""
    /\ json_loads(request.body).v = format_stdf(rMessage).v
    /\ DictKeys(json_loads(request.body).v.o) = <<"blocks">>

\* C12: a subject that is neither 'stdfMessage' nor 'stdf: '-prefixed never
\* reaches format_stdf and gets exactly one delivery, the fallback text
\* built from the raw body with the subject as the reason; a primary
\* subject whose rendering and delivery both succeed gets exactly one
\* delivery, the structured message, and no fallback is built.
C12_FastPathBypass ==
    /\ (RendererEnded /\ RendererOneRecord /\ ~PrimaryPath) =>
          /\ ~InTrace(rTrace, "format_stdf")
          /\ Len(rPosts) = 1
          /\ CarriesText(rPosts[1], FallbackText(rSubject.s))
    /\ (/\ RendererEnded /\ RendererOneRecord /\ PrimaryPath
        /\ format_stdf(rMessage).exc = ""
        /\ Len(rPosts) >= 1 /\ rPosts[1].status = 200) =>
          /\ Len(rPosts) = 1
          /\ CarriesBlocks(rPosts[1])
          /\ ~InTrace(rTrace, "format_fallback")
          /\ rPc = "done"
\* An envelope format_stdf could render, under a subject that misses the
\* prefix by its blank, has been delivered as fallback text.
C12_Witness ==
    /\ rPc = "done" /\ RendererOneRecord
    /\ format_stdf(rMessage).exc = ""
    /\ SubjectIs(rSubject, "stdf:")
    /\ Len(rPosts) = 1
    /\ CarriesText(rPosts[1], FallbackText("stdf:"))

\* C13: a subject that is neither 'stdfMessage' nor starts with 'stdf: '
\* always yields exactly one delivery, a fallback, and never a call of
\* format_stdf; the subjects the Converter's alarms arrive under ('ALARM: '
\* and what follows) are among them.
C13_NonPrimarySubject ==
    (RendererEnded /\ RendererOneRecord
     /\ ~SubjectIs(rSubject, "stdfMessage") /\ ~StartsWith(rSubject.s, "stdf: "))
        => /\ Len(rPosts) = 1
           /\ Cardinality(FallbackPosts) = 1
           /\ ~InTrace(rTrace, "format_stdf")
\* An alarm's own subject has taken the bypass.
C13_Witness ==
    /\ RendererEnded /\ RendererOneRecord
    /\ StartsWith(rSubject.s, "ALARM: ")
    /\ Len(rPosts) = 1 /\ IsFallback(rPosts[1])
    /\ ~InTrace(rTrace, "format_stdf")
\* C13 as stated: a subject that is neither 'stdfMessage' nor starts with
\* 'ALARM: ' always yields exactly one fallback delivery and never a call
\* of format_stdf.
C13_NotAlarmPrefixed ==
    (RendererEnded /\ RendererOneRecord
     /\ ~SubjectIs(rSubject, "stdfMessage") /\ ~StartsWith(rSubject.s, "ALARM: "))
        => /\ Cardinality(FallbackPosts) = 1
           /\ ~InTrace(rTrace, "format_stdf")

\* The primary path has rendered the body and the first POST, of the
\* rendering, was answered with another status than 200.
PrimaryDeliveryFailed ==
    /\ PrimaryPath
    /\ format_stdf(rMessage).exc = ""
    /\ Len(rPosts) >= 1 /\ rPosts[1].status # 200

\* C14: when the delivery of the structured message is answered with a
\* status other than 200, lambda_handler makes exactly one more delivery,
\* after the failed one, of the fallback text built from the original body
\* with the raised error's message as the reason; the structured message
\* is not sent again.
C14_DeliveryFailureFallback ==
    /\ (RendererEnded /\ RendererOneRecord /\ PrimaryDeliveryFailed) =>
          /\ Len(rPosts) = 2
          /\ CarriesBlocks(rPosts[1])
          /\ CarriesText(rPosts[2], FallbackText("Request to slack returned an error "
                                                 \o IntToStr(rPosts[1].status)))
          /\ rPosts[2].body # rPosts[1].body
    /\ (RendererOneRecord /\ PrimaryDeliveryFailed /\ ~RendererEnded) =>
          /\ rPc = "fallback"
          /\ Len(rPosts) = 1
          /\ rError = [exc |-> "ValueError",
                       msg |-> "Request to slack returned an error " \o IntToStr(rPosts[1].status)]
\* The webhook has answered the structured message with 500 and the
\* fallback text with 200.
C14_Witness ==
    /\ rPc = "done" /\ RendererOneRecord
    /\ PrimaryDeliveryFailed
    /\ Len(rPosts) = 2
    /\ rPosts[1].status = 500 /\ rPosts[2].status = 200
    /\ CarriesText(rPosts[2], FallbackText("Request to slack returned an error 500"))

\* The value at a path of keys below a result, as a result.
RECURSIVE Lookup(_, _)
Lookup(r, path) == IF path = <<>> THEN r ELSE Lookup(Then(r, Head(path)), Tail(path))
\* The value of the inbound envelope at a path; None where there is none.
Field(path) ==
    IF Lookup(json_loads(rMessage), path).exc = "" THEN Lookup(json_loads(rMessage), path).v
    ELSE PyNone
\* A sequence of {url, text} objects of strings.
IsUrlList(urls) ==
    /\ urls.k = "list"
    /\ \A i \in 1..Len(urls.a) :
          /\ urls.a[i].k = "dict"
          /\ DictHas(urls.a[i].o, "url") /\ DictGet(urls.a[i].o, "url").k = "str"
          /\ DictHas(urls.a[i].o, "text") /\ DictGet(urls.a[i].o, "text").k = "str"
\* The inbound body is a canonical envelope: a JSON object with every
\* member format_stdf looks up, meta.timestamp an integer of epoch
\* milliseconds datetime has a year for, and meta.urls, where there is one,
\* a sequence of {url, text}.
IsEnvelope ==
    /\ IsJsonObject(rMessage)
    /\ \A i \in 1..Len(RequiredPaths) : Lookup(json_loads(rMessage), RequiredPaths[i]).exc = ""
    /\ Field(<<"meta", "timestamp">>).k = "int"
    /\ ~BigLess(MaxSeconds, BigDivSmall(Field(<<"meta", "timestamp">>).n, 1000).q)
    /\ IsNone(Field(<<"meta", "urls">>)) \/ IsUrlList(Field(<<"meta", "urls">>))
UrlsGiven == ~IsNone(Field(<<"meta", "urls">>))
EventIdGiven == ~IsNone(Field(<<"meta", "source", "event_id">>))
\* The blocks of the structured message, and the parts of one block.
Blocks == DictGet(rSlackMessage.o, "blocks").a
TypeOf(block) == DictGet(block.o, "type")
IsMrkdwn(element, text) ==
    /\ DictKeys(element.o) = <<"type", "text">>
    /\ DictGet(element.o, "type") = PyStr("mrkdwn")
    /\ DictGet(element.o, "text") = text
IsTextSection(block, text) ==
    /\ DictKeys(block.o) = <<"type", "text">>
    /\ TypeOf(block) = PyStr("section")
    /\ IsMrkdwn(DictGet(block.o, "text"), text)
IsDivider(block) == DictKeys(block.o) = <<"type">> /\ TypeOf(block) = PyStr("divider")
FieldsOf(block) == DictGet(block.o, "fields").a
TimestampField == DictGet(FieldsOf(Blocks[5])[3].o, "text").s
\* format_stdf has returned the structured message of the inbound body.
Rendered == InTrace(rTrace, "format_stdf") /\ rSlackMessage # PyNone

\* C15: for every canonical envelope format_stdf returns its blocks in the
\* fixed order header, description, raw data as a code block, divider,
\* the metadata block of four fields, divider, then the links block if
\* there are urls, then the event-id context block if there is an event
\* id: 6 blocks, one more for the links and one more for the event id,
\* either without the other, the links before the event id.
C15_BlockStructure ==
    (RendererOneRecord /\ InTrace(rTrace, "format_stdf") /\ IsEnvelope) =>
        /\ rSlackMessage # PyNone
        /\ DictKeys(rSlackMessage.o) = <<"blocks">>
        /\ Len(Blocks) = 6 + (IF UrlsGiven THEN 1 ELSE 0) + (IF EventIdGiven THEN 1 ELSE 0)
        /\ IsTextSection(Blocks[1],
               PyStr("*" \o PyFormat(Field(<<"meta", "source", "app_name">>)) \o "*: *"
                     \o PyFormat(Field(<<"payload", "title">>)) \o "*"))
        /\ IsTextSection(Blocks[2], Field(<<"payload", "description">>))
        /\ IsTextSection(Blocks[3],
               PyStr(CodeFence \o PyFormat(Field(<<"payload", "raw_data">>)) \o CodeFence))
        /\ IsDivider(Blocks[4])
        /\ DictKeys(Blocks[5].o) = <<"type", "fields">>
        /\ TypeOf(Blocks[5]) = PyStr("section")
        /\ Len(FieldsOf(Blocks[5])) = 4
        /\ IsMrkdwn(FieldsOf(Blocks[5])[1],
               PyStr("*Source:* " \o PyFormat(Field(<<"meta", "source", "provider">>)) \o " "
                     \o PyFormat(Field(<<"meta", "source", "service">>))))
        /\ IsMrkdwn(FieldsOf(Blocks[5])[2],
               PyStr("*Account id:* " \o PyFormat(Field(<<"meta", "source", "account_id">>))))
        /\ IsMrkdwn(FieldsOf(Blocks[5])[3], PyStr(TimestampField))
        /\ StartsWith(TimestampField, "*Timestamp*: ")
        /\ IsMrkdwn(FieldsOf(Blocks[5])[4], PyStr("*Region:* us-east-1"))
        /\ IsDivider(Blocks[6])
        /\ UrlsGiven =>
              /\ DictKeys(Blocks[7].o) = <<"type", "text">>
              /\ TypeOf(Blocks[7]) = PyStr("section")
        /\ EventIdGiven =>
              /\ DictKeys(Blocks[Len(Blocks)].o) = <<"type", "elements">>
              /\ TypeOf(Blocks[Len(Blocks)]) = PyStr("context")
              /\ Len(DictGet(Blocks[Len(Blocks)].o, "elements").a) = 1
              /\ IsMrkdwn(DictGet(Blocks[Len(Blocks)].o, "elements").a[1],
                     PyStr("*Event id*: " \o PyFormat(Field(<<"meta", "source", "event_id">>))))
\* An envelope with two urls and an event id has been rendered as eight
\* blocks, the links before the event id.
C15_Witness ==
    /\ RendererOneRecord /\ Rendered /\ IsEnvelope
    /\ UrlsGiven /\ EventIdGiven
    /\ Len(Field(<<"meta", "urls">>).a) = 2
    /\ Len(Blocks) = 8
    /\ TypeOf(Blocks[7]) = PyStr("section") /\ TypeOf(Blocks[8]) = PyStr("context")

\* The structured message has a links block: a seventh block that is a
\* section.
HasLinksBlock == Len(Blocks) >= 7 /\ TypeOf(Blocks[7]) = PyStr("section")

\* C16: format_stdf appends a links block if and only if meta.urls is
\* present and not empty; an envelope without meta.urls, or with an empty
\* sequence for it, is rendered without a links block.
C16_LinksCondition ==
    (RendererOneRecord /\ Rendered /\ IsEnvelope) =>
        (HasLinksBlock <=> (UrlsGiven /\ Field(<<"meta", "urls">>).a # <<>>))

\* The seconds since the epoch a text YYYY-MM-DDTHH:MM:SSZ names in UTC, by
\* the calendar of strptime; an error where the text has another form.
SecondsOfDatetime(dt) ==
    BigAdd(BigMulSmall(BigFromInt(DaysFromCivil(dt.year, dt.month, dt.day)), 86400),
           BigFromInt(dt.hour * 3600 + dt.minute * 60 + dt.second))
SecondsOfZulu(text) ==
    IF Len(text) # 20 \/ SubSeq(text, 20, 20) # "Z" THEN Raise("ValueError", "no zulu time")
    ELSE IF Strptime(SubSeq(text, 1, 19) \o ".000+0000").exc # ""
    THEN Strptime(SubSeq(text, 1, 19) \o ".000+0000")
    ELSE Ok(BigNorm(SecondsOfDatetime(Strptime(SubSeq(text, 1, 19) \o ".000+0000").v)))
\* What the timestamp field shows after its label.
TimestampShown == SubSeq(TimestampField, Len("*Timestamp*: ") + 1, Len(TimestampField))

\* C17: the timestamp field of the metadata block is the UTC time of
\* meta.timestamp, whole seconds of the epoch milliseconds, in the form
\* YYYY-MM-DDTHH:MM:SSZ; for meta.timestamp = 1582154420000 it shows
\* 2020-02-19T23:20:20Z.
C17_TimestampRendering ==
    (RendererOneRecord /\ Rendered /\ IsEnvelope) =>
        /\ StartsWith(TimestampField, "*Timestamp*: ")
        /\ SecondsOfZulu(TimestampShown).exc = ""
        /\ SecondsOfZulu(TimestampShown).v
              = BigNorm(BigDivSmall(Field(<<"meta", "timestamp">>).n, 1000).q)
        /\ Field(<<"meta", "timestamp">>) = PyInt(Ms2020) =>
              TimestampShown = "2020-02-19T23:20:20Z"
\* The envelope of 1582154420000 has been rendered.
C17_Witness ==
    /\ RendererOneRecord /\ Rendered /\ IsEnvelope
    /\ Field(<<"meta", "timestamp">>) = PyInt(Ms2020)
    /\ TimestampShown = "2020-02-19T23:20:20Z"
\* C17 as stated: the timestamp field is the UTC time of meta.timestamp in
\* the form YYYY-MM-DDTHH:MM:SSZ, and for meta.timestamp = 1582154420000 it
\* shows 2020-02-20T02:20:20Z.
C17_ThreeHoursLater ==
    (RendererOneRecord /\ Rendered /\ IsEnvelope) =>
        /\ SecondsOfZulu(TimestampShown).exc = ""
        /\ SecondsOfZulu(TimestampShown).v
              = BigNorm(BigDivSmall(Field(<<"meta", "timestamp">>).n, 1000).q)
        /\ Field(<<"meta", "timestamp">>) = PyInt(Ms2020) =>
              TimestampShown = "2020-02-20T02:20:20Z"

\* The first n entries of a sequence of {url, text}, each as <url|text>,
\* with ' - ' before every entry but the first.
RECURSIVE JoinedLinks(_, _)
JoinedLinks(urls, n) ==
    IF n = 0 THEN ""
    ELSE JoinedLinks(urls, n - 1) \o (IF n = 1 THEN "" ELSE " - ")
         \o "<" \o DictGet(urls[n].o, "url").s \o "|" \o DictGet(urls[n].o, "text").s \o ">"
\* The number of places in a text where a part begins.
Occurrences(text, part) ==
    Cardinality({i \in 1..(Len(text) - Len(part) + 1) : SubSeq(text, i, i + Len(part) - 1) = part})
LinksText == DictGet(DictGet(Blocks[7].o, "text").o, "text")

\* C18: for a sequence of n >= 1 {url, text} entries format_urls returns
\* the entries in their order, each as '<url|text>', with the delimiter
\* ' - ' between consecutive entries only: n - 1 delimiters, none before
\* the first entry and none after the last.
C18_LinkFormatting ==
    (RendererOneRecord /\ Rendered /\ IsEnvelope /\ UrlsGiven
     /\ Len(Field(<<"meta", "urls">>).a) >= 1) =>
        /\ format_urls(Field(<<"meta", "urls">>)).exc = ""
        /\ LinksText = PyStr(format_urls(Field(<<"meta", "urls">>)).v)
        /\ LinksText.s = JoinedLinks(Field(<<"meta", "urls">>).a, Len(Field(<<"meta", "urls">>).a))
        /\ Occurrences(LinksText.s, " - ") = Len(Field(<<"meta", "urls">>).a) - 1
        /\ Occurrences(LinksText.s, "<") = Len(Field(<<"meta", "urls">>).a)
        /\ StartsWith(LinksText.s, "<") /\ EndsWith(LinksText.s, ">")
\* Three entries have been joined by two delimiters.
C18_Witness ==
    /\ RendererOneRecord /\ Rendered /\ IsEnvelope /\ UrlsGiven
    /\ Len(Field(<<"meta", "urls">>).a) = 3
    /\ LinksText = PyStr("<https://example.com/runbook|Runbook> - "
                         \o "<https://example.com/dashboard|Dashboard> - "
                         \o "<https://example.com/3|Third>")

\* The calls of post_to_slack so far.
PostCalls == Cardinality({i \in 1..Len(rTrace) : rTrace[i] = "post_to_slack"})
\* A ValueError whose message has the status in it.
IsStatusError(error, status) ==
    /\ error.exc = "ValueError"
    /\ Occurrences(error.msg, IntToStr(status)) >= 1

\* C19: every call of post_to_slack issues exactly one POST, to the
\* webhook's host on port 443 at the webhook's path with the header
\* Content-Type: application/json; it returns if and only if the status
\* is exactly 200, and raises a ValueError whose message has the status in
\* it otherwise.
C19_WebhookDelivery ==
    RendererOneRecord =>
        /\ PostCalls = Len(rPosts)
        /\ \A p \in 1..Len(rPosts) :
              /\ rPosts[p].method = "POST"
              /\ rPosts[p].port = 443
              /\ ToWebhook(rPosts[p])
              /\ rPosts[p].headers = << <<"Content-Type", "application/json">> >>
        \* the call before the last one was the primary delivery, and raised
        /\ \A p \in 1..(Len(rPosts) - 1) : rPosts[p].status # 200
        /\ Len(rPosts) >= 1 =>
              /\ rPosts[Len(rPosts)].status = 200 <=> rPc = "done"
              /\ rPc = "fallback" => IsStatusError(rError, rPosts[Len(rPosts)].status)
              /\ rPc = "raised" => IsStatusError(rExc, rPosts[Len(rPosts)].status)
              /\ rPc \in {"done", "fallback", "raised"}
\* The webhook has answered 201, a success that is not 200, and the call
\* has raised.
C19_Witness ==
    /\ RendererOneRecord
    /\ Len(rPosts) = 1 /\ rPosts[1].status = 201
    /\ rPc = "raised"
    /\ rExc = [exc |-> "ValueError", msg |-> "Request to slack returned an error 201"]

\* The fallbacks built so far.
FallbackCalls == Cardinality({i \in 1..Len(rTrace) : rTrace[i] = "format_fallback"})

\* C20: the fallback is attempted once and nothing guards it: when the
\* delivery of the fallback fails, on the bypass or after a failed primary
\* path, the failure leaves lambda_handler and no further delivery is
\* attempted; there is never a second fallback, and no invocation issues
\* more than two POSTs.
C20_FallbackUnguarded ==
    RendererOneRecord =>
        /\ Len(rPosts) <= 2
        /\ FallbackCalls <= 1
        /\ Cardinality(FallbackPosts) <= 1
        /\ \A p \in FallbackPosts :
              /\ p = Len(rPosts)
              /\ rPosts[p].status # 200 =>
                    /\ rPc = "raised"
                    /\ rExc = [exc |-> "ValueError",
                               msg |-> "Request to slack returned an error "
                                       \o IntToStr(rPosts[p].status)]
\* The webhook has refused the structured message and then the fallback:
\* the second failure has left the handler after two POSTs.
C20_Witness ==
    /\ RendererOneRecord /\ PrimaryDeliveryFailed
    /\ Len(rPosts) = 2 /\ rPosts[2].status = 500
    /\ FallbackPosts = {2}
    /\ rPc = "raised" /\ rExc.exc = "ValueError"

(***************************************************************************)
(* Further claims about the Converter.                                     *)
(***************************************************************************)
\* The inbound body is a JSON object without the discriminator that lacks
\* one of the fields parse_metric_to_stdf reads, under an alarm's subject.
AlarmLacksField ==
    /\ ~cSubject.isNone /\ StartsWith(cSubject.s, "ALARM: ")
    /\ IsJsonObject(cMessage) /\ ~HasDiscriminator(cMessage)
    /\ \E i \in 1..Len(ConsumedFields) : ~DictHas(json_loads(cMessage).v.o, ConsumedFields[i])
\* The first of the consumed fields, in the order of the lookups, that the
\* body lacks.
FirstLacking ==
    ConsumedFields[CHOOSE i \in 1..Len(ConsumedFields) :
                      /\ ~DictHas(json_loads(cMessage).v.o, ConsumedFields[i])
                      /\ \A j \in 1..(i - 1) : DictHas(json_loads(cMessage).v.o, ConsumedFields[j])]
\* The body has a StateChangeTime that the time conversion refuses, which
\* it does before any other field is looked up.
TimeRefused ==
    /\ DictHas(json_loads(cMessage).v.o, "StateChangeTime")
    /\ AlarmTimestamp(DictGet(json_loads(cMessage).v.o, "StateChangeTime")).exc # ""
\* The handler has raised out of the alarm transform, with nothing
\* published and nothing logged.
FatalInTransform ==
    /\ cPc = "raised"
    /\ cPublished = <<>> /\ cWarnings = <<>>
    /\ InTrace(cTrace, "parse_metric_to_stdf")
    /\ ~InTrace(cTrace, "post_unrecognized_to_sns_and_warn")

\* C23: under a subject starting with 'ALARM: ', a JSON object without the
\* discriminator that lacks one of the consumed fields makes lambda_handler
\* raise to its caller, publish nothing and log no warning; the error is
\* the lookup failure of the first field lacking, unless the record has a
\* StateChangeTime that the time conversion refuses first.
C23_MissingFieldFatal ==
    (ConverterEnded /\ ConverterOneRecord /\ AlarmLacksField) =>
        /\ FatalInTransform
        /\ ~TimeRefused => cExc = [exc |-> "KeyError", msg |-> "'" \o FirstLacking \o "'"]
        /\ TimeRefused => cExc.exc \in {"ValueError", "TypeError"}
\* An alarm without its Region has raised KeyError: 'Region'.
C23_Witness ==
    /\ cPc = "raised" /\ ConverterOneRecord /\ AlarmLacksField
    /\ DictKeys(json_loads(cMessage).v.o) = DictKeys(json_loads(JObj(Without(ExampleAlarm, "Region"))).v.o)
    /\ cExc = [exc |-> "KeyError", msg |-> "'Region'"]
    /\ cPublished = <<>> /\ cWarnings = <<>>
\* C23 as stated: such a body makes lambda_handler raise a lookup failure
\* to its caller, publish nothing and log no warning.
C23_AlwaysLookupFailure ==
    (ConverterEnded /\ ConverterOneRecord /\ AlarmLacksField) =>
        /\ FatalInTransform
        /\ cExc.exc = "KeyError"

\* The places of an entry in the Converter's trace.
PlacesOf(name) == {i \in 1..Len(cTrace) : cTrace[i] = name}

\* C24: no invocation of the Converter makes more than one publish or logs
\* more than one warning; it logs a warning if and only if the publish it
\* attempts carries the subject 'unrecognizedNonStdfMessage', and the
\* warning comes before that publish.
C24_SideEffectBound ==
    /\ Len(cPublished) <= 1
    /\ Len(cWarnings) <= 1
    /\ Len(cPublished) = Cardinality(PlacesOf("sns.publish"))
    /\ Len(cWarnings) = Cardinality(PlacesOf("log.warn"))
    /\ Len(cPublished) = 1 =>
          (Len(cWarnings) = 1 <=> cPublished[1].Subject = "unrecognizedNonStdfMessage")
    /\ Len(cWarnings) = 1 =>
          /\ Len(cPublished) = 1
          /\ \A w \in PlacesOf("log.warn"), p \in PlacesOf("sns.publish") : w < p
\* A message has gone the unrecognized way: one warning, then one publish.
C24_Witness ==
    /\ cPc = "done" /\ ConverterOneRecord
    /\ Len(cWarnings) = 1 /\ Len(cPublished) = 1
    /\ cPublished[1].Subject = "unrecognizedNonStdfMessage"
    /\ cTrace[Len(cTrace) - 1] = "log.warn" /\ cTrace[Len(cTrace)] = "sns.publish"

(***************************************************************************)
(* The claims about invocations that follow or accompany each other.       *)
(***************************************************************************)
\* The places in the Converter's trace where an earlier invocation ended,
\* the first and the last of them (0 during the first invocation), and
\* the calls of the first invocation and of the one under way.
IsEnd(entry) == entry = "return" \/ StartsWith(entry, "raise ")
Ends == {i \in 1..Len(cTrace) : IsEnd(cTrace[i])}
FirstEnd == IF Ends = {} THEN 0 ELSE CHOOSE i \in Ends : \A j \in Ends : i <= j
LastEnd == IF Ends = {} THEN 0 ELSE CHOOSE i \in Ends : \A j \in Ends : j <= i
FirstRun == SubSeq(cTrace, 1, FirstEnd - 1)
LatestRun == SubSeq(cTrace, LastEnd + 1, Len(cTrace))
CountOf(trace, name) == Cardinality({i \in 1..Len(trace) : trace[i] = name})
\* A sequence is n repetitions of its first part.
Repeats(seq, n) ==
    /\ Len(seq) % n = 0
    /\ \A i \in 1..Len(seq) : seq[i] = seq[((i - 1) % (Len(seq) \div n)) + 1]
\* The fanout service refusing a publish is the world's doing, not the
\* Converter's.
Refused(end) == StartsWith(end, "raise ClientError")

\* C21: the Converter invoked again on the same notification makes the
\* same calls every time, publishes the same body under the same subject,
\* byte for byte, logs the same warning and ends the same way, whatever
\* the time of the invocation and whatever the earlier ones left behind.
C21_Determinism ==
    (ConverterEnded /\ FirstEnd > 0) =>
        /\ LatestRun = FirstRun
        /\ Len(cPublished) = (cClock + 1) * CountOf(FirstRun, "sns.publish")
        /\ Repeats(cPublished, cClock + 1)
        /\ Len(cWarnings) = (cClock + 1) * CountOf(FirstRun, "log.warn")
        /\ Repeats(cWarnings, cClock + 1)
        /\ \/ EndOf(cExc) = cTrace[FirstEnd]
           \/ Refused(EndOf(cExc)) \/ Refused(cTrace[FirstEnd])
\* An alarm has been converted and published twice, at two times, to the
\* same body and subject.
C21_Witness ==
    /\ cPc = "done" /\ FirstEnd > 0 /\ cClock = 1
    /\ ConverterOneRecord
    /\ CountOf(LatestRun, "parse_metric_to_stdf") = 1
    /\ Len(cPublished) = 2 /\ cPublished[1] = cPublished[2]
    /\ StartsWith(cPublished[2].Subject, "stdf: ")

\* The reason the handler gives format_fallback: the subject on the
\* bypass, the text of the caught error otherwise.
FallbackReason == IF PrimaryPath THEN rError.msg ELSE rSubject.s
\* The text a request carries in its one field.
TextCarried(request) == DictGet(json_loads(request.body).v.o, "text").s

\* C22: format_fallback(message, reason) returns a message of the single
\* field text, which is the reason, then '. Failed to format the message.
\* Using fallback mode!', a newline and the message: every fallback that
\* is delivered ends with the raw inbound body, unmodified, after the
\* reason.
C22_FallbackShape ==
    (RendererOneRecord /\ FallbackCalls = 1) =>
        /\ Len(rPosts) >= 1
        /\ json_loads(rPosts[Len(rPosts)].body).exc = ""
        /\ json_loads(rPosts[Len(rPosts)].body).v.k = "dict"
        /\ DictKeys(json_loads(rPosts[Len(rPosts)].body).v.o) = <<"text">>
        /\ DictGet(json_loads(rPosts[Len(rPosts)].body).v.o, "text").k = "str"
        /\ TextCarried(rPosts[Len(rPosts)])
              = FallbackReason \o ". Failed to format the message. Using fallback mode!"
                \o "\n" \o TextOf(rMessage, 1)
        /\ StartsWith(TextCarried(rPosts[Len(rPosts)]), FallbackReason \o ". ")
        /\ EndsWith(TextCarried(rPosts[Len(rPosts)]), "!\n" \o TextOf(rMessage, 1))
\* A body that is no JSON came under the canonical subject: the fallback
\* carries the parser's complaint and then the body as it came.
C22_Witness ==
    /\ rPc = "done" /\ RendererOneRecord
    /\ SubjectIs(rSubject, "stdfMessage")
    /\ rMessage = <<TText("Instance i-0abc is unreachable")>>
    /\ Len(rPosts) = 1
    /\ rError.exc = "JSONDecodeError"
    /\ TextCarried(rPosts[1])
          = rError.msg \o ". Failed to format the message. Using fallback mode!\n"
            \o TextOf(rMessage, 1)

\* The inbound envelope with another stdf_version, or another
\* meta.source.region; None for an envelope without the member.
WithVersion(e, version) ==
    IF IsNone(version) THEN Drop(e, <<"stdf_version">>)
    ELSE PyDict(DictSet(e.o, "stdf_version", version))
WithRegion(e, region) ==
    IF IsNone(region) THEN Drop(e, <<"meta", "source", "region">>)
    ELSE PyDict(DictSet(e.o, "meta", PyDict(DictSet(DictGet(e.o, "meta").o, "source",
            PyDict(DictSet(DictGet(DictGet(e.o, "meta").o, "source").o, "region", region))))))
Versions == {PyNone, PyInt(<<1>>), PyInt(<<2>>), PyInt(<<3>>), PyStr("2")}
Regions == {PyNone, PyStr("us-east-1"), PyStr("eu-west-1"), PyStr("ap-south-1")}

\* C25: envelopes that differ only in meta.source.region or stdf_version
\* render to the same chat message: the region field shows the fixed
\* label 'us-east-1', and an envelope of any stdf_version, or of none, is
\* rendered on the primary path like one of version 2 and never refused.
C25_RegionAndVersionIgnored ==
    (RendererOneRecord /\ InTrace(rTrace, "format_stdf") /\ IsEnvelope) =>
        /\ rSlackMessage # PyNone
        /\ IsMrkdwn(FieldsOf(Blocks[5])[4], PyStr("*Region:* us-east-1"))
        /\ \A version \in Versions, region \in Regions :
              /\ format_stdf(json_dumps(WithRegion(WithVersion(json_loads(rMessage).v,
                                                               version), region))).exc = ""
              /\ format_stdf(json_dumps(WithRegion(WithVersion(json_loads(rMessage).v,
                                                               version), region))).v
                    = rSlackMessage
\* An envelope of version 3 from eu-west-1 has been rendered.
C25_Witness ==
    /\ RendererOneRecord /\ Rendered /\ IsEnvelope
    /\ Field(<<"stdf_version">>) = PyInt(<<3>>)
    /\ Field(<<"meta", "source", "region">>) = PyStr("eu-west-1")
    /\ rPc = "done" /\ Len(rPosts) = 1 /\ CarriesBlocks(rPosts[1])

\* What the Converter publishes and what it logs when it runs alone on an
\* event, as functions of the event: the forwarder's publish for a body
\* it is handed, and the way of the handler to it.
AlonePosted(message, call) ==
    IF call.exc = "JSONDecodeError" THEN <<post_unrecognized_to_sns_and_warn(message)>>
    ELSE IF call.exc # "" THEN <<>>
    ELSE <<call.v>>
AloneTransformed(message, stdf_message) ==
    IF stdf_message.exc = "JSONDecodeError" THEN <<post_unrecognized_to_sns_and_warn(message)>>
    ELSE IF stdf_message.exc # "" THEN <<>>
    ELSE AlonePosted(message, post_stdf_string_to_sns(stdf_message.v))
AloneClassified(subject, message, stdf) ==
    IF stdf.exc = "JSONDecodeError" THEN <<post_unrecognized_to_sns_and_warn(message)>>
    ELSE IF stdf.exc # "" THEN <<>>
    ELSE IF stdf.v THEN AlonePosted(message, post_stdf_string_to_sns(message))
    ELSE IF IsMetricAlarm(subject) THEN AloneTransformed(message, parse_metric_to_stdf(message))
    ELSE <<post_unrecognized_to_sns_and_warn(message)>>
AlonePublished(event) ==
    IF Len(event.Records) # 1 THEN <<>>
    ELSE AloneClassified(get_subject_and_message(event).subject,
                         get_subject_and_message(event).message,
                         IsStdfMessage(get_subject_and_message(event).subject,
                                       get_subject_and_message(event).message))
AloneWarned(event) ==
    IF AlonePublished(event) # <<>>
       /\ AlonePublished(event)[1].Subject = "unrecognizedNonStdfMessage"
    THEN <<[logger |-> "Unrecognized Message Format", event |-> event]>>
    ELSE <<>>
\* The bodies the Renderer POSTs when it runs alone on an event, the first
\* POST answered with a status.
AloneRendered(message, slack_message, status) ==
    IF slack_message.exc = ""
    THEN <<json_dumps(slack_message.v)>>
         \o (IF PostOutcome(status).exc = "" THEN <<>>
             ELSE <<json_dumps(format_fallback(message, PostOutcome(status).msg))>>)
    ELSE IF IsValueError(slack_message.exc)
    THEN <<json_dumps(format_fallback(message, slack_message.msg))>>
    ELSE <<>>
AloneBodies(event, status) ==
    IF Len(event.Records) # 1 THEN <<>>
    ELSE IF IsBypass(get_subject_and_message(event).subject).v
    THEN <<json_dumps(format_fallback(get_subject_and_message(event).message,
                                      get_subject_and_message(event).subject.s))>>
    ELSE AloneRendered(get_subject_and_message(event).message,
                       format_stdf(get_subject_and_message(event).message), status)
\* The part of the Renderer's trace, POSTs and reads of the secret that is
\* the invocation's under way, after the last one that ended.
LastRendererEnd ==
    IF RendererEnds = {} THEN 0 ELSE CHOOSE i \in RendererEnds : \A j \in RendererEnds : j <= i
OwnTrace == SubSeq(rTrace, LastRendererEnd + 1, Len(rTrace))
OwnPosts ==
    SubSeq(rPosts, CountOf(SubSeq(rTrace, 1, LastRendererEnd), "post_to_slack") + 1, Len(rPosts))
EarlierFetches == CountOf(SubSeq(rTrace, 1, LastRendererEnd), "get_webhook")
FirstStatus == IF OwnPosts = <<>> THEN HttpOk ELSE OwnPosts[1].status

\* C26: with invocations of the two stages side by side, and the Renderer
\* invoked again where an earlier invocation ran, every invocation
\* publishes, warns and POSTs what it does alone on its own notification:
\* nothing it does depends on what another invocation wrote; and every
\* invocation of the Renderer reads the secret itself, once, and POSTs to
\* the webhook that secret names.
C26_InvocationIndependence ==
    /\ \A p \in 1..Len(cPublished) :
          p <= Len(AlonePublished(cEvent)) /\ cPublished[p] = AlonePublished(cEvent)[p]
    /\ \A w \in 1..Len(cWarnings) :
          w <= Len(AloneWarned(cEvent)) /\ cWarnings[w] = AloneWarned(cEvent)[w]
    /\ ConverterEnded =>
          /\ cPublished = AlonePublished(cEvent)
          /\ cWarnings = AloneWarned(cEvent)
    /\ \A p \in 1..Len(OwnPosts) :
          /\ p <= Len(AloneBodies(rEvent, FirstStatus))
          /\ OwnPosts[p].body = AloneBodies(rEvent, FirstStatus)[p]
          /\ ToWebhook(OwnPosts[p])
    /\ RendererEnded => Len(OwnPosts) = Len(AloneBodies(rEvent, FirstStatus))
    /\ rFetches = EarlierFetches + CountOf(OwnTrace, "get_webhook")
    /\ CountOf(OwnTrace, "get_webhook") <= 1
    /\ OwnPosts # <<>> => CountOf(OwnTrace, "get_webhook") = 1
    /\ rPc \in {"route", "bypass", "format", "post", "fallback"} =>
          CountOf(OwnTrace, "get_webhook") = 1
\* The Renderer, invoked a second time after the secret was rotated, has
\* read the secret again and delivered to the new webhook, while an
\* invocation of the Converter had started and not ended.
C26_Witness ==
    /\ RendererEnds # {} /\ rPc = "done"
    /\ rFetches = 2
    /\ Len(rPosts) >= 2 /\ Len(OwnPosts) = 1
    /\ rPosts[1].path # OwnPosts[1].path
    /\ ToWebhook(OwnPosts[1])
    /\ cPc \in {"classify", "post_stdf", "parse_metric", "unrecognized"}

(***************************************************************************)
(* The claims about the two stages in a row.                               *)
(***************************************************************************)
\* The Renderer has chosen its way: the primary path, or the bypass.
OnPrimaryPath == rPc = "format" \/ InTrace(rTrace, "format_stdf")
OnBypass == rPc = "bypass" \/ (InTrace(rTrace, "format_fallback") /\ ~InTrace(rTrace, "format_stdf"))

\* C27: every subject the Converter publishes starts with 'stdf: ', a
\* truncated one too, or is 'unrecognizedNonStdfMessage'; so the Renderer
\* takes the primary path for exactly the notifications the Converter
\* forwarded as canonical or transformed from an alarm, and the bypass,
\* with the reason 'unrecognizedNonStdfMessage', for exactly those the
\* Converter sent the unrecognized way.
C27_SubjectComposition ==
    /\ \A p \in 1..Len(cPublished) :
          \/ StartsWith(cPublished[p].Subject, "stdf: ")
          \/ cPublished[p].Subject = "unrecognizedNonStdfMessage"
    /\ rPc # "idle" =>
          /\ rSubject = Some(cPublished[1].Subject)
          /\ rMessage = cPublished[1].Message
    /\ (OnPrimaryPath \/ OnBypass) =>
          /\ OnPrimaryPath <=> PostedStdf
          /\ OnBypass <=> OutcomeUnrecognized
          /\ PostedStdf \/ OutcomeUnrecognized
    /\ (OnBypass /\ rPosts # <<>>) =>
          /\ Len(rPosts) = 1
          /\ CarriesText(rPosts[1],
                "unrecognizedNonStdfMessage. Failed to format the message. Using fallback mode!\n"
                \o TextOf(cMessage, 1))
\* A canonical envelope with a title too long for a subject: the
\* truncated subject has taken it down the Renderer's primary path.
C27_Witness ==
    /\ rPc = "done" /\ PostedStdf
    /\ StartsWith(rSubject.s, "stdf: ") /\ EndsWith(rSubject.s, "[TRUNCATED]")
    /\ Len(rSubject.s) = 99
    /\ InTrace(rTrace, "format_stdf")
    /\ Len(rPosts) = 1 /\ CarriesBlocks(rPosts[1])

\* The Renderer has the envelope the Converter made of an alarm, and has
\* called format_stdf on it.
AlarmArrived == OutcomeTransformed /\ rPc # "idle" /\ InTrace(rTrace, "format_stdf")
\* The instant of the alarm is one that datetime can hold in UTC.
InstantInRange == ~BigLess(MaxSeconds, BigDivSmall(TimestampIn(cPublished[1].Message).n, 1000).q)
\* The seven blocks of an alarm, and the fallback only after a refused
\* delivery of them.
AlarmRendered ==
    /\ rSlackMessage # PyNone
    /\ Len(Blocks) = 7
    /\ \A b \in {1, 2, 3, 5, 7} : TypeOf(Blocks[b]) = PyStr("section")
    /\ IsDivider(Blocks[4]) /\ IsDivider(Blocks[6])
    /\ IsTextSection(Blocks[1],
           PyStr("*Metric Alarm*: *" \o DictGet(json_loads(cMessage).v.o, "AlarmName").s \o "*"))
    /\ IsTextSection(Blocks[7],
           PyStr("<https://console.aws.amazon.com/cloudwatch/home#alarmsV2:alarm/"
                 \o DictGet(json_loads(cMessage).v.o, "AlarmName").s \o "|Show alarm details>"))
    /\ \A b \in 1..Len(Blocks) : TypeOf(Blocks[b]) # PyStr("context")
    /\ rPc # "raised" \/ rPosts # <<>>
    /\ rPosts # <<>> => CarriesBlocks(rPosts[1])
    /\ FallbackCalls <= 1
    /\ FallbackCalls = 1 => (Len(rPosts) = 2 /\ rPosts[1].status # 200)

\* C28: for every alarm record the Converter converts, of an instant that
\* datetime can hold in UTC, the envelope it publishes goes down the
\* Renderer's primary path without a rendering failure and renders to
\* exactly 7 blocks, the 6 fixed blocks and one links block of the text
\* '<' + console url of AlarmName + '|Show alarm details>', without an
\* event-id block; the fallback is used only when the delivery of the
\* blocks is refused.
C28_AlarmEndToEnd ==
    (AlarmArrived /\ InstantInRange) => AlarmRendered
\* An alarm has been converted, rendered to seven blocks and delivered.
C28_Witness ==
    /\ AlarmArrived /\ InstantInRange /\ AlarmRendered
    /\ rPc = "done" /\ Len(rPosts) = 1
    /\ SubjectIs(rSubject, "stdf: Example alarm name")
\* C28 as stated: for every alarm record the Converter converts, whatever
\* its instant, the envelope renders to the 7 blocks and the fallback is
\* used only when the delivery is refused.
C28_EveryInstant ==
    AlarmArrived => AlarmRendered


\* ---------------------------------------------------------------------
\* claims about both stages
\* ---------------------------------------------------------------------

\* The publishes that returned: every publish made but the one whose refusal
\* ended the invocation.
PublishesReturned ==
    {i \in 1..Len(cPublished) :
        ~(i = Len(cPublished) /\ cPc = "raised" /\ cExc.exc = "ClientError")}
\* The POSTs answered with 200.
PostsDelivered == {i \in 1..Len(rPosts) : rPosts[i].status = HttpOk}
\* The outbound calls and warnings of a trace, in order.
IsSideEffect(step) == step \in {"sns.publish", "log.warn", "post_to_slack", "get_webhook"}
RECURSIVE SideEffectsOf(_)
SideEffectsOf(trace) ==
    IF trace = <<>> THEN <<>>
    ELSE IF IsSideEffect(Head(trace))
         THEN <<Head(trace)>> \o SideEffectsOf(Tail(trace))
         ELSE SideEffectsOf(Tail(trace))
\* The steps a trace has after the last of its outbound calls.
RECURSIVE AfterLastCall(_)
AfterLastCall(trace) ==
    IF trace = <<>> \/ IsSideEffect(trace[Len(trace)]) THEN <<>>
    ELSE Append(AfterLastCall(SubSeq(trace, 1, Len(trace) - 1)), trace[Len(trace)])

\* C29: in both stages a delivery that succeeds (a publish that returns, a
\* POST answered with 200) is the last publish, warning or POST of its
\* invocation, after which the handler does nothing but log its progress
\* and return; no invocation delivers more than once, a fallback is posted
\* only when no earlier POST of the invocation was answered with 200, and an
\* invocation that ends by raising has delivered nothing.
C29_SuccessIsTerminal ==
    /\ Cardinality(PublishesReturned) <= 1
    /\ Cardinality(PostsDelivered) <= 1
    /\ Len(SideEffectsOf(cTrace)) = Len(cPublished) + Len(cWarnings)
    /\ Len(SideEffectsOf(rTrace)) = Len(rPosts) + rFetches
    /\ \A i \in PublishesReturned :
          /\ i = Len(cPublished)
          /\ cPc = "done"
          /\ cTrace[Len(cTrace)] = "sns.publish"
    /\ \A i \in PostsDelivered :
          /\ i = Len(rPosts)
          /\ rPc = "done"
          /\ AfterLastCall(rTrace) \in {<<"print: Message sent to Slack">>,
                                        <<"print: Message sent to Slack in fallback mode">>,
                                        <<>>}
    /\ \A i \in 1..Len(rPosts) :
          (i > 1 /\ FallbackCalls >= 1) => rPosts[i - 1].status # HttpOk
    /\ cPc = "raised" => PublishesReturned = {}
    /\ rPc = "raised" => PostsDelivered = {}
\* A fallback has been delivered after a refused delivery of the blocks.
C29_Witness ==
    /\ rPc = "done"
    /\ Len(rPosts) = 2
    /\ rPosts[1].status # HttpOk
    /\ PostsDelivered = {2}
    /\ IsFallback(rPosts[2])


\* ---------------------------------------------------------------------
\* A further claim about the Converter
\* ---------------------------------------------------------------------

\* The bodies of the inbound messages.
InboundBodies == {ConverterMessages[i] : i \in 1..Len(ConverterMessages)}
\* An alarm subject over a JSON object whose StateChangeTime the time
\* conversion refuses.
AlarmOfBadTime ==
    /\ ~cSubject.isNone /\ StartsWith(cSubject.s, "ALARM: ")
    /\ IsJsonObject(cMessage)
    /\ TimeRefused
\* The canonical subject over a JSON body without payload.title.
CanonicalWithoutTitle ==
    /\ SubjectIs(cSubject, "stdfMessage")
    /\ json_loads(cMessage).exc = ""
    /\ TitleOf(cMessage).exc # ""
\* The handler has raised what its callee raised, with nothing published
\* and nothing logged.
RaisedUnrecovered ==
    /\ cPc = "raised"
    /\ cExc.exc \notin {"", "JSONDecodeError", "ClientError"}
    /\ cPublished = <<>> /\ cWarnings = <<>>
    /\ ~InTrace(cTrace, "post_unrecognized_to_sns_and_warn")
\* The unrecognized path has been entered from the else branch of line 88.
ByElseBranch ==
    /\ ~InTrace(cTrace, "post_stdf_string_to_sns")
    /\ ~InTrace(cTrace, "parse_metric_to_stdf")
    /\ ~SubjectIs(cSubject, "stdfMessage")
    /\ IsJsonObject(cMessage) /\ ~HasDiscriminator(cMessage)
    /\ cSubject.isNone \/ ~StartsWith(cSubject.s, "ALARM: ")
\* What C30 says of each of its cases, for the bodies in alarms.
RecoveryLimited(alarms) ==
    /\ (ConverterEnded /\ ConverterOneRecord /\ AlarmOfBadTime /\ cMessage \in alarms) =>
          /\ RaisedUnrecovered
          /\ cExc.exc \in {"ValueError", "TypeError"}
          /\ InTrace(cTrace, "parse_metric_to_stdf")
    /\ (ConverterEnded /\ ConverterOneRecord /\ CanonicalWithoutTitle) =>
          /\ RaisedUnrecovered
          /\ cExc = Exc(TitleOf(cMessage))
          /\ InTrace(cTrace, "post_stdf_string_to_sns")
    /\ (InTrace(cTrace, "post_unrecognized_to_sns_and_warn") /\ json_loads(cMessage).exc = "") =>
          ByElseBranch
    /\ (cPc = "raised" /\ cPublished = <<>> /\ ConverterOneRecord) => cExc.exc # "JSONDecodeError"

\* C30: the Converter recovers from JSON decode errors only: under a
\* subject starting with 'ALARM: ', a JSON object without the canonical
\* discriminator whose StateChangeTime is not of the expected time format,
\* and under the subject 'stdfMessage' a JSON body without payload.title,
\* make lambda_handler raise to its caller with no publish and no warning;
\* the unrecognized path is entered after an error only for a body that is
\* not JSON.
C30_RecoveryLimited ==
    RecoveryLimited({m \in InboundBodies : ~HasDiscriminator(m)})
\* The time conversion has refused the StateChangeTime of an alarm, and the
\* handler has raised its ValueError.
C30_Witness ==
    /\ ConverterOneRecord /\ AlarmOfBadTime /\ ~HasDiscriminator(cMessage)
    /\ RaisedUnrecovered
    /\ cExc.exc = "ValueError"
    /\ InTrace(cTrace, "parse_metric_to_stdf")
\* C30 as stated: under a subject starting with 'ALARM: ', every JSON
\* object whose StateChangeTime is not of the expected time format makes
\* lambda_handler raise with no publish and no warning.
C30_EveryObject ==
    RecoveryLimited(InboundBodies)

=============================================================================
